---- MODULE Spec2Model ----
(***************************************************************************)
(* State-machine model of the BESS crawler pipeline: orchestrator, job     *)
(* queue, discovery worker, extraction worker, project linking and the     *)
(* relational store they write to.                                         *)
(*                                                                         *)
(* Texts are modelled as sets of phrases taken from a small vocabulary;    *)
(* two phrases of one text are separated so that no keyword spans two of   *)
(* them.  Python's `term in text` is the table Occurrences, computed from  *)
(* the vocabulary and the keyword lists of the repository.                 *)
(***************************************************************************)
EXTENDS Integers, Sequences, FiniteSets, TLC

NULL == "NULL"

(***************************************************************************)
(* Vocabulary                                                              *)
(***************************************************************************)
Phrases ==
    {"Amtsblatt Nr. 5",
     "Solarpark",
     "Bauantrag",
     "Batteriespeicher",
     "Aufstellungsbeschluss",
     "Baugenehmigung",
     "§ 36 BauGB",
     "Bebauungsplan Nr. 12",
     "Regenrückhaltebecken",
     "Stellungnahme",
     "Speicheranlage",
     "Umspannwerk mit Netzanschluss",
     "Datenspeicher",
     "Bauvorbescheid",
     "Frühzeitige Beteiligung",
     "Öffentliche Auslegung",
     "Satzungsbeschluss"}

Urls ==
    {"https://ris.example.de/to0050",
     "https://ris.example.de/to0051",
     "https://www.example.de/amtsblatt/5",
     "https://www.example.de/planung"}

lower(s) ==
    CASE s = "Amtsblatt Nr. 5" -> "amtsblatt nr. 5"
      [] s = "Solarpark" -> "solarpark"
      [] s = "Bauantrag" -> "bauantrag"
      [] s = "Batteriespeicher" -> "batteriespeicher"
      [] s = "Aufstellungsbeschluss" -> "aufstellungsbeschluss"
      [] s = "Baugenehmigung" -> "baugenehmigung"
      [] s = "§ 36 BauGB" -> "§ 36 baugb"
      [] s = "Bebauungsplan Nr. 12" -> "bebauungsplan nr. 12"
      [] s = "Regenrückhaltebecken" -> "regenrückhaltebecken"
      [] s = "Stellungnahme" -> "stellungnahme"
      [] s = "Speicheranlage" -> "speicheranlage"
      [] s = "Umspannwerk mit Netzanschluss" -> "umspannwerk mit netzanschluss"
      [] s = "Datenspeicher" -> "datenspeicher"
      [] s = "Bauvorbescheid" -> "bauvorbescheid"
      [] s = "Frühzeitige Beteiligung" -> "frühzeitige beteiligung"
      [] s = "Öffentliche Auslegung" -> "öffentliche auslegung"
      [] s = "Satzungsbeschluss" -> "satzungsbeschluss"
      [] OTHER -> s

normalize_phrase(s) ==
    CASE s = "Amtsblatt Nr. 5" -> "amtsblatt nr. 5"
      [] s = "Solarpark" -> "solarpark"
      [] s = "Bauantrag" -> "bauantrag"
      [] s = "Batteriespeicher" -> "batteriespeicher"
      [] s = "Aufstellungsbeschluss" -> "aufstellungsbeschluss"
      [] s = "Baugenehmigung" -> "baugenehmigung"
      [] s = "§ 36 BauGB" -> "§ 36 baugb"
      [] s = "Bebauungsplan Nr. 12" -> "bebauungsplan nr. 12"
      [] s = "Regenrückhaltebecken" -> "regenrueckhaltebecken"
      [] s = "Stellungnahme" -> "stellungnahme"
      [] s = "Speicheranlage" -> "speicheranlage"
      [] s = "Umspannwerk mit Netzanschluss" -> "umspannwerk mit netzanschluss"
      [] s = "Datenspeicher" -> "datenspeicher"
      [] s = "Bauvorbescheid" -> "bauvorbescheid"
      [] s = "Frühzeitige Beteiligung" -> "fruehzeitige beteiligung"
      [] s = "Öffentliche Auslegung" -> "oeffentliche auslegung"
      [] s = "Satzungsbeschluss" -> "satzungsbeschluss"
      [] OTHER -> s

Occurrences ==
    {<<"amtsblatt", "amtsblatt nr. 5">>,
     <<"amtsblatt", "https://www.example.de/amtsblatt/5">>,
     <<"aufstellungsbeschluss", "aufstellungsbeschluss">>,
     <<"auslegung", "oeffentliche auslegung">>,
     <<"auslegung", "öffentliche auslegung">>,
     <<"batteriespeicher", "batteriespeicher">>,
     <<"bauantrag", "bauantrag">>,
     <<"baugb", "§ 36 baugb">>,
     <<"baugenehmigung", "baugenehmigung">>,
     <<"bauvorbescheid", "bauvorbescheid">>,
     <<"bebauungsplan", "bebauungsplan nr. 12">>,
     <<"datenspeicher", "datenspeicher">>,
     <<"fruehzeitige beteiligung", "fruehzeitige beteiligung">>,
     <<"frühzeitige beteiligung", "frühzeitige beteiligung">>,
     <<"ge", "baugenehmigung">>,
     <<"ge", "fruehzeitige beteiligung">>,
     <<"ge", "frühzeitige beteiligung">>,
     <<"ge", "regenrueckhaltebecken">>,
     <<"ge", "regenrückhaltebecken">>,
     <<"ge", "speicheranlage">>,
     <<"netz", "umspannwerk mit netzanschluss">>,
     <<"netzanschluss", "umspannwerk mit netzanschluss">>,
     <<"nr.", "amtsblatt nr. 5">>,
     <<"nr.", "bebauungsplan nr. 12">>,
     <<"oeffentliche auslegung", "oeffentliche auslegung">>,
     <<"plan", "bebauungsplan nr. 12">>,
     <<"plan", "https://www.example.de/planung">>,
     <<"regenrueckhaltebecken", "regenrueckhaltebecken">>,
     <<"regenrückhaltebecken", "regenrückhaltebecken">>,
     <<"ris", "https://ris.example.de/to0050">>,
     <<"ris", "https://ris.example.de/to0051">>,
     <<"satzungsbeschluss", "satzungsbeschluss">>,
     <<"solar", "solarpark">>,
     <<"solarpark", "solarpark">>,
     <<"speicher", "batteriespeicher">>,
     <<"speicher", "datenspeicher">>,
     <<"speicher", "speicheranlage">>,
     <<"speicheranlage", "speicheranlage">>,
     <<"stellungnahme", "stellungnahme">>,
     <<"umspannwerk", "umspannwerk mit netzanschluss">>,
     <<"vorbescheid", "bauvorbescheid">>,
     <<"§ 36", "§ 36 baugb">>,
     <<"§ 36 baugb", "§ 36 baugb">>,
     <<"öffentliche auslegung", "öffentliche auslegung">>}

IssueNumberPattern ==
    {"amtsblatt nr. 5", "bebauungsplan nr. 12"}


(***************************************************************************)
(* Keyword lists (apps/extract/keywords_bess.py)                           *)
(***************************************************************************)
PLANNING_TERMS_STRONG ==
    {"bebauungsplan", "b-plan", "bauleitplanung", "baugb", "flaechennutzungsplan",
     "flächennutzungsplan", "fnp", "vorhabenbezogener bebauungsplan", "vbp"}

PLANNING_STEP_TERMS ==
    {"aufstellungsbeschluss", "beschluss zur aufstellung",
     "beschlussfassung zur aufstellung", "gemäß § 2 abs. 1 baugb",
     "gemaess § 2 abs. 1 baugb", "§ 2 abs. 1 baugb", "fruehzeitige beteiligung",
     "frühzeitige beteiligung", "§ 3 abs. 1 baugb", "§ 4 abs. 1 baugb",
     "oeffentliche auslegung", "öffentliche auslegung", "auslegung der unterlagen",
     "§ 3 abs. 2 baugb", "§ 4 abs. 2 baugb", "satzungsbeschluss",
     "als satzung beschlossen", "bekanntmachung des satzungsbeschlusses",
     "inkrafttreten", "tritt in kraft", "§ 10 baugb"}

PERMIT_TERMS_STRONG ==
    {"bauvorbescheid", "antrag auf bauvorbescheid", "vorbescheid", "baugenehmigung",
     "bauantrag", "genehmigung nach", "gemeindliches einvernehmen",
     "einvernehmen gemaess § 36 baugb", "§ 36 baugb", "stellungnahme der gemeinde",
     "einvernehmen erteilen", "einvernehmen versagen", "bauvoranfrage", "bauvorantrag",
     "kenntnisnahme", "antrag auf errichtung", "standortgemeinde"}

BESS_TERMS_EXPLICIT ==
    {"batteriespeicher", "batterie-speicher", "energiespeicher", "stromspeicher",
     "grossspeicher", "großspeicher", "bess", "speicheranlage", "speicherpark",
     "speicherkraftwerk"}

BESS_TERMS_CONTAINER_GRID ==
    {"containeranlage", "speichercontainer", "wechselrichter", "trafostation",
     "trafostationen", "transformator", "umspannwerk", "netzanschluss",
     "mittelspannung", "hochspannung", "anschluss an das stromnetz",
     "netzverknuepfungspunkt", "netzverknüpfungspunkt", "anlage zur energiespeicherung"}

ENERGY_CONTEXT_TERMS ==
    {"photovoltaik", "pv", "solarpark", "windenergie", "energieerzeugung",
     "energieversorgung", "strom", "netzdienlich", "netzdienlichkeit", "regelenergie",
     "spitzenlast", "erneuerbare energien"}

ZONING_TERMS ==
    {"sondergebiet", "so ", "so energie", "sondergebiet energie", "industriegebiet",
     "gi", "gewerbegebiet", "ge", "flaeche fuer versorgungsanlagen",
     "fläche für versorgungsanlagen", "technische anlagen",
     "anlagen zur energieversorgung", "versorgung"}

NEGATIVE_STORAGE_TERMS ==
    {"regenrueckhaltebecken", "regenrückhaltebecken", "wasserbehaelter",
     "wasserbehälter", "loeschwasser", "löschwasser", "waermespeicher", "wärmespeicher",
     "kaeltespeicher", "kältespeicher", "gaslager", "gasspeicher", "muell", "abfall",
     "lagerhalle", "lagerung", "speisekammer"}

NEGATIVE_UNRELATED_TERMS ==
    {"datenspeicher", "speicherstadt", "speicherkarte", "cloud"}

(***************************************************************************)
(* Text primitives                                                         *)
(***************************************************************************)
\* Python `term in text` on a text given as the set of its phrases.
In(term, text) == \E h \in text : <<term, h>> \in Occurrences

AnyIn(terms, text) == \E t \in terms : In(t, text)

\* str.lower() applied to every phrase of a text.
Lowered(text) == {lower(p) : p \in text}

\* normalize_text: lower-case, fold umlauts, collapse whitespace.
normalize_text(text) == {normalize_phrase(p) : p \in text}

Max(a, b) == IF a >= b THEN a ELSE b

Min(a, b) == IF a <= b THEN a ELSE b

(***************************************************************************)
(* Prefilter (apps/extract/prefilter.py).  Scores are in hundredths.       *)
(***************************************************************************)
\* prefilter_score without the container penalty.
score_without_penalty(title, url) ==
    LET title_lower == Lowered(title)
        score == (IF AnyIn({"batteriespeicher", "batterie-speicher", "energiespeicher",
                            "stromspeicher", "grossspeicher", "großspeicher"}, title_lower)
                  THEN 60 ELSE 0)
                 + (IF AnyIn({"photovoltaik", "pv", "solarpark", "solaranlage", "solar"},
                             title_lower) THEN 40 ELSE 0)
                 + (IF AnyIn({"aufstellungsbeschluss", "öffentliche auslegung",
                              "oeffentliche auslegung", "satzungsbeschluss",
                              "bauvorbescheid", "baugenehmigung", "§ 36", "§36",
                              "einvernehmen"}, title_lower) THEN 30 ELSE 0)
                 + (IF AnyIn({"bauleitplanung", "bebauungsplan", "amtsblatt", "ris",
                              "sessionnet"}, {lower(url)}) THEN 20 ELSE 0)
    IN  Max(0, Min(100, score))

prefilter_score(title, url) ==
    LET title_lower == Lowered(title)
        url_lower == {lower(url)}
        strong_bess_terms == {"batteriespeicher", "batterie-speicher", "energiespeicher",
                              "stromspeicher", "grossspeicher", "großspeicher"}
        solar_terms == {"photovoltaik", "pv", "solarpark", "solaranlage", "solar"}
        procedure_terms == {"aufstellungsbeschluss", "öffentliche auslegung",
                            "oeffentliche auslegung", "satzungsbeschluss", "bauvorbescheid",
                            "baugenehmigung", "§ 36", "§36", "einvernehmen"}
        url_procedure_terms == {"bauleitplanung", "bebauungsplan", "amtsblatt", "ris",
                                "sessionnet"}
        container_terms == {"amtsblatt", "sonderamtsblatt", "bekanntmachungsblatt",
                            "ausgabe", "nummer", "nr."}
        has_procedure_signal == AnyIn(procedure_terms, title_lower)
        is_container_title == AnyIn(container_terms, title_lower)
        score == (IF AnyIn(strong_bess_terms, title_lower) THEN 60 ELSE 0)
                 + (IF AnyIn(solar_terms, title_lower) THEN 40 ELSE 0)
                 + (IF has_procedure_signal THEN 30 ELSE 0)
                 + (IF AnyIn(url_procedure_terms, url_lower) THEN 20 ELSE 0)
                 - (IF is_container_title /\ ~has_procedure_signal THEN 70 ELSE 0)
    IN  Max(0, Min(100, score))

should_extract(score, mode, discovery_source) ==
    IF discovery_source \in {"RIS", "ris"} /\ mode \in {"fast", "deep"}
    THEN (IF mode = "fast" THEN score >= 35 ELSE score >= 20)
    ELSE IF discovery_source \in {"AMTSBLATT", "amtsblatt"} /\ mode \in {"fast", "deep"}
    THEN (IF mode = "fast" THEN score >= 50 ELSE score >= 30)
    ELSE IF discovery_source \notin {"RIS", "ris", "AMTSBLATT", "amtsblatt"}
            /\ mode \in {"fast", "deep"}
    THEN (IF mode = "fast" THEN score >= 60 ELSE score >= 50)
    ELSE IF mode = "deep" THEN score >= 30 ELSE score >= 60

(***************************************************************************)
(* Classifier (apps/extract/classifier_bess.py)                            *)
(***************************************************************************)
\* tag_procedure_type with the B-plan types tested before the permit types.
tag_plan_before_permit(text) ==
    IF In("aufstellungsbeschluss", text) \/ In("beschluss zur aufstellung", text)
       \/ In("§ 2 abs. 1 baugb", text)
    THEN "BPLAN_AUFSTELLUNG"
    ELSE IF In("§ 3 abs. 1 baugb", text) \/ In("frühzeitige beteiligung", text)
            \/ In("fruehzeitige beteiligung", text)
    THEN "BPLAN_FRUEHZEITIG_3_1"
    ELSE IF In("§ 3 abs. 2 baugb", text) \/ In("öffentliche auslegung", text)
            \/ In("oeffentliche auslegung", text)
    THEN "BPLAN_AUSLEGUNG_3_2"
    ELSE IF In("satzungsbeschluss", text) \/ In("§ 10 baugb", text)
            \/ In("inkrafttreten", text)
    THEN "BPLAN_SATZUNG"
    ELSE IF In("bauvorbescheid", text) \/ In("vorbescheid", text)
    THEN "PERMIT_BAUVORBESCHEID"
    ELSE IF In("baugenehmigung", text) THEN "PERMIT_BAUGENEHMIGUNG"
    ELSE IF In("§ 36 baugb", text)
            \/ (In("gemeindliches einvernehmen", text) /\ In("§ 36", text))
    THEN "PERMIT_36_EINVERNEHMEN"
    ELSE IF In("bauantrag", text) \/ In("bauvoranfrage", text)
            \/ In("bauvorantrag", text) \/ In("antrag auf errichtung", text)
    THEN "PERMIT_OTHER"
    ELSE IF AnyIn(PLANNING_TERMS_STRONG, text) THEN "BPLAN_OTHER"
    ELSE "UNKNOWN"

tag_procedure_type(text) ==
    IF In("bauvorbescheid", text) \/ In("vorbescheid", text) THEN "PERMIT_BAUVORBESCHEID"
    ELSE IF In("baugenehmigung", text) THEN "PERMIT_BAUGENEHMIGUNG"
    ELSE IF In("§ 36 baugb", text)
            \/ (In("gemeindliches einvernehmen", text) /\ In("§ 36", text))
    THEN "PERMIT_36_EINVERNEHMEN"
    ELSE IF In("bauantrag", text)
            \/ (In("antrag auf", text) /\ AnyIn(PERMIT_TERMS_STRONG, text))
    THEN "PERMIT_OTHER"
    ELSE IF In("bauvoranfrage", text) \/ In("bauvorantrag", text) THEN "PERMIT_OTHER"
    ELSE IF In("kenntnisnahme", text) /\ (In("bauantrag", text) \/ In("vorhaben", text))
    THEN "PERMIT_OTHER"
    ELSE IF In("antrag auf errichtung", text) THEN "PERMIT_OTHER"
    ELSE IF In("aufstellungsbeschluss", text) \/ In("beschluss zur aufstellung", text)
            \/ In("§ 2 abs. 1 baugb", text)
    THEN "BPLAN_AUFSTELLUNG"
    ELSE IF In("§ 3 abs. 1 baugb", text) \/ In("frühzeitige beteiligung", text)
            \/ In("fruehzeitige beteiligung", text)
    THEN "BPLAN_FRUEHZEITIG_3_1"
    ELSE IF In("§ 3 abs. 2 baugb", text) \/ In("öffentliche auslegung", text)
            \/ In("oeffentliche auslegung", text)
    THEN "BPLAN_AUSLEGUNG_3_2"
    ELSE IF In("satzungsbeschluss", text) \/ In("§ 10 baugb", text)
            \/ In("inkrafttreten", text)
    THEN "BPLAN_SATZUNG"
    ELSE IF AnyIn(PLANNING_TERMS_STRONG, text) THEN "BPLAN_OTHER"
    ELSE "UNKNOWN"

tag_legal_basis(text) ==
    IF AnyIn({"§ 35 baugb", "§35 baugb", "§ 35bau gb", "§35bau gb", "außenbereich",
              "aussenbereich"}, text)
    THEN "§35"
    ELSE IF AnyIn({"§ 34 baugb", "§34 baugb", "§ 34bau gb", "§34bau gb", "innenbereich"},
                  text)
    THEN "§34"
    ELSE IF AnyIn({"§ 36 baugb", "§36 baugb", "§ 36bau gb", "§36bau gb"}, text)
    THEN "§36"
    ELSE "unknown"

tag_project_components(text) ==
    LET has_pv == AnyIn({"photovoltaik", "pv", "solarpark"}, text)
        has_wind == AnyIn({"windenergie", "windpark"}, text)
        has_grid == AnyIn({"netz", "umspannwerk", "trafostation", "mittelspannung",
                           "hochspannung"}, text)
        has_bess == AnyIn(BESS_TERMS_EXPLICIT, text) \/ In("speicher", text)
                    \/ (In("containeranlage", text) /\ has_grid)
                    \/ In("anlage zur energiespeicherung", text)
    IN  IF has_pv /\ has_bess THEN "PV+BESS"
        ELSE IF has_wind /\ has_bess THEN "WIND+BESS"
        ELSE IF has_bess THEN "BESS_ONLY"
        ELSE "OTHER/UNCLEAR"

\* Confidence in hundredths.
calculate_confidence(text, title, has_bess_explicit, date) ==
    LET bess == IF AnyIn({"batteriespeicher", "energiespeicher", "stromspeicher"}, text)
                THEN 55
                ELSE IF AnyIn({"speicheranlage", "grossspeicher", "großspeicher",
                               "speicherpark"}, text)
                THEN 35
                ELSE IF In("speicher", text) /\ AnyIn(ENERGY_CONTEXT_TERMS, text)
                THEN 15
                ELSE 0
        step == IF AnyIn(PLANNING_STEP_TERMS, text) THEN 25 ELSE 0
        permit == IF In("bauvorbescheid", text) \/ In("baugenehmigung", text)
                  THEN 25 ELSE 0
        p36 == IF In("§ 36 baugb", text) \/ In("gemeindliches einvernehmen", text)
               THEN 20 ELSE 0
        grid == IF AnyIn({"umspannwerk", "netzanschluss", "trafostation", "mittelspannung",
                          "hochspannung", "netzverknuepfungspunkt",
                          "netzverknüpfungspunkt"}, text)
                THEN 10 ELSE 0
        has_negative == AnyIn(NEGATIVE_STORAGE_TERMS, text)
        generic == IF In("speicher", text) /\ ~AnyIn(BESS_TERMS_CONTAINER_GRID, text)
                   THEN 25 ELSE 0
        nodate == IF date = NULL THEN 15 ELSE 0
    IN  IF has_negative /\ ~has_bess_explicit
        THEN 0
        ELSE Max(0, Min(100, bess + step + permit + p36 + grid - generic - nodate))

\* Documents of the model are shorter than the 250-character snippet limit, so
\* a snippet found around a trigger is the whole original text.
extract_evidence_snippets(text, title, normalized) ==
    IF AnyIn(BESS_TERMS_EXPLICIT, normalized)
       \/ AnyIn(PLANNING_STEP_TERMS \cup PERMIT_TERMS_STRONG, normalized)
       \/ AnyIn({"§ 35 baugb", "aussenbereich", "außenbereich", "privilegiertes vorhaben",
                 "§ 34 baugb", "innenbereich", "§ 36 baugb"}, normalized)
    THEN text
    ELSE {}

\* A date is NULL, a datetime or a datetime.date, before or after 2023-01-01.
Datetimes == {"datetime:2022", "datetime:2024"}

Dates == {"date:2022", "date:2024"}

\* `date and date >= datetime(2023, 1, 1)` where the comparison is defined.
date_ge_2023(date) == date = "datetime:2024"

\* The column crawl_candidates.date_hint is of type DATE: a datetime written to
\* it is read back as a datetime.date.
date_column(date) ==
    CASE date = "datetime:2022" -> "date:2022"
      [] date = "datetime:2024" -> "date:2024"
      [] OTHER -> date

\* is_candidate: the candidate gate on normalize_text(text) + " " +
\* normalize_text(title).
is_candidate(text, title) ==
    LET combined == normalize_text(text) \cup normalize_text(title)
        has_negative == AnyIn(NEGATIVE_STORAGE_TERMS \cup NEGATIVE_UNRELATED_TERMS,
                              combined)
        has_bess_explicit == AnyIn(BESS_TERMS_EXPLICIT, combined)
        has_procedure == AnyIn(PLANNING_TERMS_STRONG \cup PLANNING_STEP_TERMS
                               \cup PERMIT_TERMS_STRONG, combined)
        has_speicher_energy == In("speicher", combined)
                               /\ AnyIn(ENERGY_CONTEXT_TERMS, combined)
        has_zoning_energy == AnyIn(ZONING_TERMS, combined)
                             /\ AnyIn(ENERGY_CONTEXT_TERMS, combined)
    IN  IF has_negative /\ ~has_bess_explicit THEN FALSE
        ELSE IF ~has_procedure THEN FALSE
        ELSE has_bess_explicit \/ has_speicher_energy \/ has_zoning_energy

\* classify_relevance raises TypeError at the comparison of rule R2 when it is
\* handed a datetime.date and has not returned early on a negative term.
classify_relevance_raises(text, title, date) ==
    LET combined == normalize_text(text) \cup normalize_text(title)
        original_combined == Lowered(text \cup title)
        negatives == NEGATIVE_STORAGE_TERMS \cup NEGATIVE_UNRELATED_TERMS
        has_negative == AnyIn(negatives, combined) \/ AnyIn(negatives, original_combined)
        has_bess_explicit == AnyIn({"batteriespeicher", "batterie-speicher",
                                    "energiespeicher", "stromspeicher", "grossspeicher",
                                    "großspeicher", "bess"}, combined)
    IN  date \in Dates /\ ~(has_negative /\ ~has_bess_explicit)

classify_relevance(text, title, date) ==
    LET combined == normalize_text(text) \cup normalize_text(title)
        normalized_title == normalize_text(title)
        original_combined == Lowered(text \cup title)
        negatives == NEGATIVE_STORAGE_TERMS \cup NEGATIVE_UNRELATED_TERMS
        has_negative == AnyIn(negatives, combined) \/ AnyIn(negatives, original_combined)
        strong_bess_terms == {"batteriespeicher", "batterie-speicher", "energiespeicher",
                              "stromspeicher", "grossspeicher", "großspeicher", "bess"}
        has_bess_explicit == AnyIn(strong_bess_terms, combined)
        has_medium_bess == AnyIn({"speicheranlage", "speicherpark", "speicherkraftwerk"},
                                 combined)
        has_procedure == AnyIn(PLANNING_TERMS_STRONG \cup PLANNING_STEP_TERMS
                               \cup PERMIT_TERMS_STRONG, combined)
        r1 == has_bess_explicit /\ has_procedure /\ ~has_negative
        r2 == date_ge_2023(date)
              /\ AnyIn({"batteriespeicher", "energiespeicher"}, normalized_title)
        r3 == (In("speicher", combined) \/ has_medium_bess) /\ ~(r1 \/ r2) /\ ~has_negative
              /\ Cardinality({t \in BESS_TERMS_CONTAINER_GRID : In(t, combined)}) >= 2
              /\ AnyIn(PLANNING_STEP_TERMS \cup PERMIT_TERMS_STRONG, combined)
        is_relevant == r1 \/ r2 \/ r3
        confidence == calculate_confidence(combined, normalized_title, has_bess_explicit,
                                           date)
        rejected == [is_relevant |-> FALSE, procedure_type |-> NULL, legal_basis |-> NULL,
                     project_components |-> NULL, confidence_score |-> 0,
                     ambiguity_flag |-> FALSE, review_recommended |-> FALSE,
                     evidence_snippets |-> {}]
    IN  IF (has_negative /\ ~has_bess_explicit) \/ ~is_relevant
        THEN rejected
        ELSE [is_relevant |-> TRUE,
              procedure_type |-> tag_procedure_type(combined),
              legal_basis |-> tag_legal_basis(combined),
              project_components |-> tag_project_components(combined),
              confidence_score |-> confidence,
              ambiguity_flag |-> r3 \/ ~has_bess_explicit,
              review_recommended |-> (35 <= confidence /\ confidence <= 65),
              evidence_snippets |-> extract_evidence_snippets(Lowered(text), title, combined)]

(***************************************************************************)
(* Container gate (apps/extract/container_detection.py)                    *)
(***************************************************************************)
is_container(title_norm, url, discovery_source) ==
    LET combined == Lowered(title_norm) \cup {lower(url)}
        container_keywords == {"amtsblatt", "sonderamtsblatt", "bekanntmachungsblatt",
                               "bekanntmachung", "veröffentlichung", "ausgabe", "nummer",
                               "nr.", "jahrgang"}
        procedure_keywords == {"bebauungsplan", "b-plan", "bauleitplanung",
                               "aufstellungsbeschluss", "satzungsbeschluss",
                               "öffentliche auslegung", "bauvorbescheid", "baugenehmigung",
                               "einvernehmen", "§ 35", "§ 34", "§ 36", "batteriespeicher",
                               "energiespeicher", "speicheranlage"}
        has_container_keyword == AnyIn(container_keywords, combined)
        has_procedure_keyword == AnyIn(procedure_keywords, combined)
    IN  has_container_keyword /\ ~has_procedure_keyword
        /\ (combined \cap IssueNumberPattern /= {} \/ In("amtsblatt", combined))

\* dict.get(key, default).
dict_get(d, key, default) == IF key \in DOMAIN d THEN d[key] ELSE default

\* A dict is a record; None and the empty dict are the record without fields.
NoDict == <<>>

\* `if d:` on a dict or None.
truthy(d) == DOMAIN d /= {}

has_required_procedure_signal(classifier_result) ==
    /\ truthy(classifier_result)
    /\ dict_get(classifier_result, "procedure_type", NULL) /= NULL

\* is_valid_procedure without its container branch.
gate_without_container_branch(title_norm, url, source, result, extracted_text) ==
    LET combined_text == Lowered(title_norm \cup extracted_text)
        is_ris == source \in {"RIS", "ris"}
    IN  IF has_required_procedure_signal(result)
           \/ (is_ris /\ AnyIn({"einvernehmen", "stellungnahme", "bauantrag",
                                 "bauvoranfrage", "vorhaben", "kenntnisnahme",
                                 "antrag auf errichtung"}, combined_text))
        THEN <<TRUE, NULL>>
        ELSE <<FALSE, "SKIP_NO_PROCEDURE_SIGNAL">>

\* Returns <<is_valid, skip_reason>>.  extracted_text None is the empty text,
\* as `extracted_text or ""` makes it.
is_valid_procedure(title_norm, url, discovery_source, classifier_result, extracted_text) ==
    LET combined_text == Lowered(title_norm \cup extracted_text)
        procedure_signals == {"bebauungsplan", "b-plan", "bauleitplanung",
                              "aufstellungsbeschluss", "satzungsbeschluss",
                              "öffentliche auslegung", "auslegung", "bauvorbescheid",
                              "baugenehmigung", "einvernehmen", "§ 35", "§ 34", "§ 36",
                              "bauantrag", "bauvoranfrage", "stellungnahme"}
        bess_signals == {"batteriespeicher", "energiespeicher", "stromspeicher",
                         "speicheranlage", "speicherpark", "containeranlage",
                         "anlage zur energiespeicherung"}
        grid_signals == {"umspannwerk", "netzanschluss", "trafostation", "mittelspannung",
                         "hochspannung", "110 kv", "220 kv"}
        privileged_terms == {"einvernehmen", "stellungnahme", "bauantrag", "bauvoranfrage",
                             "vorhaben", "kenntnisnahme", "antrag auf errichtung"}
        is_candidate_flag == truthy(classifier_result)
                        /\ dict_get(classifier_result, "is_candidate", FALSE)
        has_bess == AnyIn(bess_signals, combined_text)
        has_grid == AnyIn(grid_signals, combined_text)
        is_ris == discovery_source \in {"RIS", "ris"}
    IN  IF is_container(title_norm, url, discovery_source)
        THEN IF AnyIn(procedure_signals, combined_text)
                \/ has_required_procedure_signal(classifier_result)
             THEN <<TRUE, NULL>>
             ELSE <<FALSE, "SKIP_CONTAINER">>
        ELSE IF truthy(classifier_result) /\ is_candidate_flag
                /\ (has_bess \/ (has_grid /\ In("speicher", combined_text)))
        THEN <<TRUE, NULL>>
        ELSE IF truthy(classifier_result) /\ is_ris /\ AnyIn(privileged_terms, combined_text)
        THEN <<TRUE, NULL>>
        ELSE IF has_required_procedure_signal(classifier_result)
        THEN <<TRUE, NULL>>
        ELSE IF is_ris /\ AnyIn({"einvernehmen", "stellungnahme", "bauantrag",
                                 "bauvoranfrage"}, combined_text)
        THEN <<TRUE, NULL>>
        ELSE <<FALSE, "SKIP_NO_PROCEDURE_SIGNAL">>

(***************************************************************************)
(* Remote content.  An item is one listing entry as a crawler returns it;  *)
(* page_text and pdf_text are what the remote site serves for its URLs.    *)
(***************************************************************************)
RisAgendaItem ==
    [discovery_source |-> "RIS", title |-> {"Solarpark"},
     url |-> "https://ris.example.de/to0050", date |-> NULL, doc_urls |-> <<>>]

RisPermitItem ==
    [discovery_source |-> "RIS",
     title |-> {"Batteriespeicher", "Baugenehmigung", "Bebauungsplan Nr. 12"},
     url |-> "https://ris.example.de/to0051", date |-> NULL,
     doc_urls |-> <<"vorlage.pdf">>]

RisSessionItem ==
    [discovery_source |-> "RIS", title |-> {"Batteriespeicher", "Baugenehmigung"},
     url |-> "https://ris.example.de/to0051", date |-> "datetime:2024",
     doc_urls |-> <<>>]

RisPlanItem ==
    [discovery_source |-> "RIS",
     title |-> {"Bebauungsplan Nr. 12", "Batteriespeicher", "Aufstellungsbeschluss"},
     url |-> "https://ris.example.de/to0051", date |-> NULL, doc_urls |-> <<>>]

GazetteIssueItem ==
    [discovery_source |-> "AMTSBLATT", title |-> {"Amtsblatt Nr. 5"},
     url |-> "https://www.example.de/amtsblatt/5", date |-> NULL,
     doc_urls |-> <<"amtsblatt5.pdf">>]

WebsitePlanItem ==
    [discovery_source |-> "MUNICIPAL_WEBSITE",
     title |-> {"Bebauungsplan Nr. 12", "Batteriespeicher", "Aufstellungsbeschluss"},
     url |-> "https://www.example.de/planung", date |-> NULL, doc_urls |-> <<>>]

Items == {RisAgendaItem, RisPermitItem, RisSessionItem, RisPlanItem, GazetteIssueItem,
          WebsitePlanItem}

\* extract_html_text of the page at a URL.
page_text(url) ==
    CASE url = "https://ris.example.de/to0050" -> {"Bauantrag"}
      [] url = "https://www.example.de/planung" -> {"Batteriespeicher"}
      [] OTHER -> {}

\* Text extract_progressive finds in a document.
pdf_text(doc_url) ==
    CASE doc_url = "vorlage.pdf" -> {"Stellungnahme"}
      [] OTHER -> {}

\* Attachments fetch_agenda_item finds on an agenda page.
agenda_documents(url) ==
    IF url = "https://ris.example.de/to0051" THEN <<"vorlage.pdf">> ELSE <<>>

\* The discovery source a crawler stamps on its candidates
\* (discovery_worker.py:154, 231, 297).
SourceOfCrawler(source) ==
    CASE source \in {"ris", "sessionnet"} -> "RIS"
      [] source \in {"gazette", "amtsblatt"} -> "AMTSBLATT"
      [] source = "municipal_website" -> "MUNICIPAL_WEBSITE"
      [] OTHER -> NULL

(***************************************************************************)
(* Bounds                                                                  *)
(***************************************************************************)
\* Candidate rows the crawlers return over a whole run.
MaxCand == 2

\* Orchestrator cycles.
MaxCycles == 1

\* Length of the Redis list; an rpush on a list of this length fails.
MaxQueue == 1

\* Identifiers drawn in a run of the linking operations on their own.
MaxIds == 3

\* Jobs handed to the workers a second time.
MaxReruns == 1
\* The largest candidates table whose jobs are handed out again.
MaxRerunCand == 1

\* Seconds that pass, and calls into the network layer by all processes.
MaxTime == 3

MaxCalls == 2

\* Orchestrator cycles and days that pass when the orchestrator runs with the
\* seed table of three municipalities, and rpush failures in one cycle.
MaxOrchCycles == 2

MaxAge == 8

\* Phrases in one title.
MaxTitle == 2

\* Committees of a RIS and sessions of a committee.
MaxCommittees == 2

MaxSessions == 4

\* Pages of a PDF.
MaxPages == 6

Workers == {"w1", "w2"}

Municipalities == {"12060020"}

\* Identifiers (uuid4, gen_random_uuid) are <<n>>; the SQL NULL of an id column is <<>>.
NullId == <<>>

TerminalStatus == {"SKIPPED", "DONE", "ERROR"}

VARIABLES
    queue,               \* the Redis list settings.queue_name
    crawl_candidates,    \* committed rows: candidate_id -> row
    procedures,          \* committed rows: procedure_id -> row
    sources,             \* committed rows of table sources
    documents,           \* committed rows of table documents
    project_entities,    \* committed rows: project_id -> row
    project_procedures,  \* committed rows of the link table
    crawl_stats,         \* committed rows of crawl_stats
    wk,                  \* per worker: position and locals of the job in progress
    uuids,               \* how many identifiers have been drawn
    cycles,              \* orchestrator cycles run
    found,               \* candidates the crawlers have returned so far
    crawl_mode,          \* settings.crawl_mode
    reruns,              \* jobs processed a second time
    clock,               \* time.time(), in seconds
    call,                \* per process: the call into the network layer in progress
    last_request_time,   \* per process: _last_request_time of fetch.py, -1 for no entry
    semaphores,          \* per process: permits taken of _global_semaphore, _domain_semaphores
    cache,               \* the disk cache: url -> (content, metadata)
    ssl_metrics,         \* per process: the counters of ssl_policy.py
    last_sent,           \* per netloc: when the last request went on the wire, -1 for none
    age,                 \* per seed municipality: days since MAX(created_at) of its
                         \* crawl_stats rows, -1 for no row
    summary_log,         \* the MUNICIPALITY_SUMMARY lines logged so far
    listing,             \* the listing entry the text functions are applied to, with
                         \* their results
    ris_walk,            \* list_procedures on its way through the committees of a RIS
    text_cache,          \* the text cache file of one PDF, <<>> for no file
    extraction           \* the PDF and the last extract_progressive call on it

vars == <<queue, crawl_candidates, procedures, sources, documents, project_entities,
          project_procedures, crawl_stats, wk, uuids, cycles, found, crawl_mode,
          reruns, clock, call, last_request_time, semaphores, cache, ssl_metrics,
          last_sent, age, summary_log, listing, ris_walk, text_cache, extraction>>

\* The state of the network layer.
net == <<clock, call, last_request_time, semaphores, cache, ssl_metrics, last_sent>>

\* What no step of the pipeline touches, and the summary log, which only the
\* end of a discovery job writes.
rest == <<reruns, net, age, summary_log, listing, ris_walk, text_cache, extraction>>

db == <<crawl_candidates, procedures, sources, documents, project_entities,
        project_procedures, crawl_stats>>

\* The rows of municipality_seed with state 'BB'.
municipality_seed == {"12060020", "12060024", "12060034"}

BATCH_SIZE == 10

RESCAN_INTERVAL_DAYS == 7

(***************************************************************************)
(* The network layer (apps/net, apps/downloader).  Each worker process has *)
(* its own module globals: the semaphores of ratelimit.py, the table       *)
(* _last_request_time of fetch.py and the counters of ssl_policy.py.  The  *)
(* disk cache is shared.  No module starts a thread, so a process has at   *)
(* most one call in progress.  Time is counted in seconds.                 *)
(***************************************************************************)
NetUrls ==
    {"https://www.geobasis-bb.de/bplan.pdf",
     "https://ssl.ratsinfo-online.net/to0051",
     "http://ris.example.de/to0050"}

\* urlparse(url).scheme
scheme(url) ==
    CASE url = "https://www.geobasis-bb.de/bplan.pdf" -> "https"
      [] url = "https://ssl.ratsinfo-online.net/to0051" -> "https"
      [] url = "http://ris.example.de/to0050" -> "http"
      [] OTHER -> NULL

\* urlparse(url).netloc
netloc(url) ==
    CASE url = "https://www.geobasis-bb.de/bplan.pdf" -> "www.geobasis-bb.de"
      [] url = "https://ssl.ratsinfo-online.net/to0051" -> "ssl.ratsinfo-online.net"
      [] url = "http://ris.example.de/to0050" -> "ris.example.de"
      [] OTHER -> NULL

Netlocs == {netloc(u) : u \in NetUrls}

\* The URLs handed to the downloader, and those requested by the crawlers.
FetchUrls == {u \in NetUrls : scheme(u) = "https"}

\* The values of use_cache the callers of download_cached pass.
UseCache == {TRUE}

DOMAIN_DELAYS == [d \in {"geobasis-bb.de", "www.geobasis-bb.de"} |-> 10]

MIN_REQUEST_DELAY == 1

\* settings.crawl_retries, the default of max_retries.
crawl_retries == 3

_global_concurrency == 100

_per_domain_concurrency == 2

DEFAULT_INSECURE_SSL_ALLOWLIST == {"ssl.ratsinfo-online.net"}

\* The allow-list is the default one: CRAWL_SSL_INSECURE_ALLOWLIST is unset.
should_disable_ssl_verify(url) == lower(netloc(url)) \in DEFAULT_INSECURE_SSL_ALLOWLIST

\* The bodies a server sends with status 200, and content.lower() of each.
Bodies == {"<h1>Tagesordnung</h1>", "<h1>Tourismus</h1>", "<h1>Wartung</h1>"}

lower_body(content) ==
    CASE content = "<h1>Tagesordnung</h1>" -> "<h1>tagesordnung</h1>"
      [] content = "<h1>Tourismus</h1>" -> "<h1>tourismus</h1>"
      [] content = "<h1>Wartung</h1>" -> "<h1>wartung</h1>"
      [] OTHER -> content

ris_markers ==
    {"sitzung", "gremium", "tagesordnung", "beschluss", "sessionnet",
     "ratsinformationssystem", "ris", "vorlage", "antrag"}

\* `marker in content_lower` for the markers and bodies above.
MarkerOccurrences ==
    {<<"tagesordnung", "<h1>tagesordnung</h1>">>,
     <<"ris", "<h1>tourismus</h1>">>}

is_ris_page(content) ==
    \E marker \in ris_markers : <<marker, lower_body(content)>> \in MarkerOccurrences

\* A variant of the acceptance test of the HTTP fallback without the marker test.
accepts_any_200(status, body) == status = "200"

\* The HTTP fallback response is accepted: status 200 and a RIS page.
http_fallback_accepted(status, body) == status = "200" /\ is_ris_page(body)

\* The ETag headers a server sends with a 200.
ETags == {NULL, "W/1"}

\* What a request can end in: a status code or an exception of requests.
Statuses == {"200", "304", "404", "403"}

Transient == {"timeout", "connection"}

\* Positions of a call at which a request is on the wire.
InFlight == {"requesting", "requesting_insecure", "requesting_http"}

\* Return values: None, a raised SSLError, a response, or (content, headers).
None == [kind |-> "None", status |-> NULL, via |-> NULL, body |-> NULL, etag |-> NULL]

SSLError == [kind |-> "raise", status |-> NULL, via |-> NULL, body |-> NULL, etag |-> NULL]

Response(status, via, body) ==
    [kind |-> "response", status |-> status, via |-> via, body |-> body, etag |-> NULL]

Content(body, etag) ==
    [kind |-> "content", status |-> NULL, via |-> NULL, body |-> body, etag |-> etag]

\* A process outside any call, having made n calls.
NoCall(n) ==
    [pc |-> "idle", fn |-> NULL, url |-> NULL, use_cache |-> FALSE, robots |-> TRUE,
     attempt |-> 0, wake |-> 0, if_none_match |-> NULL, requests |-> 0, insecure |-> 0,
     http_requests |-> 0, ssl_seen |-> FALSE, switch |-> FALSE, outcome |-> NULL,
     cached |-> NoDict, result |-> NoDict, n |-> n]

\* The outcomes a server can give the request of call c over the given scheme.
Outcomes(c, sch) ==
    {"200", "404", "403"} \cup Transient
        \cup (IF sch = "https" THEN {"ssl"} ELSE {})
        \cup (IF c.if_none_match /= NULL THEN {"304"} ELSE {})

(***************************************************************************)
(* Identifiers and rows                                                    *)
(***************************************************************************)
\* str(uuid.uuid4()) / gen_random_uuid(): the k-th identifier drawn in a step.
uuid4(k) == <<uuids + k>>

\* A function with one more (or one replaced) entry.
Put(f, k, v) == [x \in DOMAIN f \cup {k} |-> IF x = k THEN v ELSE f[x]]

Idle == [pc |-> "idle"]

\* Worker w moves to the position and locals r.
Goto(w, r) == wk' = [wk EXCEPT ![w] = r]

\* The job in progress with its position replaced.
At(w, pc) == [wk[w] EXCEPT !.pc = pc]

\* The job in progress at position pc, with the locals named in keep.
Keep(w, pc, keep) ==
    [f \in (DOMAIN wk[w]) \cap ({"pc", "kind", "payload", "mode", "job_id", "handled",
                                  "mark_failed"} \cup keep) |->
        IF f = "pc" THEN pc ELSE wk[w][f]]

(***************************************************************************)
(* Orchestrator (apps/orchestrator/main.py)                                *)
(***************************************************************************)
\* Municipalities with no crawl_stats row (none of the model's rows grows
\* older than the rescan interval).
get_due_municipalities ==
    {m \in Municipalities : ~\E s \in crawl_stats : s.municipality_key = m}

discovery_payload(m, source) ==
    [region |-> "BB", source |-> source, municipality_key |-> m]

\* enqueue_job: RPUSH to the tail of the list.
enqueue_job(q, payload) == Append(q, payload)

\* Whether an rpush can succeed.
has_room(q) == Len(q) < MaxQueue

\* One orchestrator cycle for a due municipality: three discovery jobs, each
\* rpush in its own try/except, so any subset of them reaches the queue.
enqueue_municipality_discovery_jobs ==
    /\ cycles < MaxCycles
    /\ cycles' = cycles + 1
    /\ \E m \in get_due_municipalities :
       \E pushed \in SUBSET {"ris", "gazette", "municipal_website"} :
          LET q1 == IF "ris" \in pushed
                    THEN enqueue_job(queue, discovery_payload(m, "ris")) ELSE queue
              q2 == IF "gazette" \in pushed
                    THEN enqueue_job(q1, discovery_payload(m, "gazette")) ELSE q1
              q3 == IF "municipal_website" \in pushed
                    THEN enqueue_job(q2, discovery_payload(m, "municipal_website")) ELSE q2
          IN  /\ Len(q3) <= MaxQueue
              /\ queue' = q3
    /\ UNCHANGED <<db, wk, uuids, found, crawl_mode>>
    /\ UNCHANGED rest

(***************************************************************************)
(* Worker main loop (apps/worker/main.py)                                  *)
(***************************************************************************)
\* A variant of loop_ready in which an exception of a job ends the loop.
loop_ready_unless_raised(pc) == pc \in {"idle", "returned"}

\* The positions from which the while loop of main takes its next turn: both
\* calls of process_* sit in a try whose except clause only logs.
loop_ready(pc) == pc \in {"idle", "returned", "raised"}

\* One turn of the loop of main: the outcome of the previous job, returned or
\* raised, has only been logged; BLPOP removes the head of the list and the
\* payload lives only in the worker from here on.  Both process_* functions
\* start by drawing a job_id, which is fresh among the rows of the worker's
\* run_id.
blpop(w) ==
    /\ loop_ready(wk[w].pc)
    /\ queue /= <<>>
    /\ queue' = Tail(queue)
    /\ LET payload == Head(queue)
       IN  Goto(w, [pc |-> IF "candidate_id" \in DOMAIN payload THEN "get_candidate"
                                                               ELSE "crawl",
                    kind |-> IF "candidate_id" \in DOMAIN payload THEN "extraction"
                                                                 ELSE "discovery",
                    payload |-> payload,
                    mode |-> dict_get(payload, "mode", crawl_mode),
                    job_id |-> <<Cardinality(crawl_stats) + 1>>, handled |-> FALSE, mark_failed |-> FALSE])
    /\ UNCHANGED <<db, uuids, cycles, found, crawl_mode>>
    /\ UNCHANGED rest

insert_crawl_stats(stats, row) ==
    {s \in stats : ~(s.run_id = row.run_id /\ s.job_id = row.job_id)} \cup {row}

\* The row both workers insert: source_type is source.upper(), and source_status
\* is counts_json->>'source_status', NULL in the rows of extraction jobs.
stats_row(w, source_status) ==
    [run_id |-> w, job_id |-> wk[w].job_id,
     municipality_key |-> wk[w].payload.municipality_key,
     kind |-> wk[w].kind, source_status |-> source_status,
     source_type |-> CASE wk[w].payload.source = "ris" -> "RIS"
                       [] wk[w].payload.source = "gazette" -> "GAZETTE"
                       [] wk[w].payload.source = "municipal_website" -> "MUNICIPAL_WEBSITE"
                       [] OTHER -> "UNKNOWN"]

\* log_municipality_summary (apps/worker/municipality_aggregator.py): the lines
\* it can log.  The query reads the rows of one municipality and one run_id;
\* statuses[source_type] is the status of the last row of that source_type in
\* an order the query leaves open, NOT_RUN for a NULL status or no row.  (When
\* the query fails nothing is logged but a debug message; the model follows
\* the query that succeeds.)
log_municipality_summary(stats, municipality_key, run_id) ==
    LET results == {s \in stats : /\ s.municipality_key = municipality_key
                                  /\ s.run_id = run_id
                                  /\ s.source_type \in {"RIS", "GAZETTE",
                                                        "MUNICIPAL_WEBSITE"}}
        status(source_type) ==
            LET rows == {s \in results : s.source_type = source_type}
            IN  IF rows = {} THEN {"NOT_RUN"}
                ELSE {IF s.source_status = NULL THEN "NOT_RUN" ELSE s.source_status :
                      s \in rows}
    IN  {[municipality_key |-> municipality_key, RIS |-> r, GAZETTE |-> g,
          MUNICIPAL_WEBSITE |-> m] :
         r \in status("RIS"), g \in status("GAZETTE"), m \in status("MUNICIPAL_WEBSITE")}

(***************************************************************************)
(* Entity resolution (apps/extract/entity_resolution.py) and rollups       *)
(* (apps/extract/project_rollup.py)                                        *)
(***************************************************************************)
MATURITY_PRECEDENCE(proc_type) ==
    CASE proc_type = "PERMIT_BAUGENEHMIGUNG" -> "BAUGENEHMIGUNG"
      [] proc_type = "PERMIT_BAUVORBESCHEID" -> "BAUVORBESCHEID"
      [] proc_type = "PERMIT_36_EINVERNEHMEN" -> "PERMIT_36"
      [] proc_type = "BPLAN_SATZUNG" -> "BPLAN_SATZUNG"
      [] proc_type = "BPLAN_AUSLEGUNG_3_2" -> "BPLAN_AUSLEGUNG"
      [] proc_type = "BPLAN_FRUEHZEITIG_3_1" -> "BPLAN_AUFSTELLUNG"
      [] proc_type = "BPLAN_AUFSTELLUNG" -> "BPLAN_AUFSTELLUNG"
      [] OTHER -> NULL

\* procedure_types is the set of the types in the list.
compute_maturity_stage(procedure_types) ==
    LET stages_seen == {MATURITY_PRECEDENCE(t) : t \in procedure_types} \ {NULL}
    IN  IF "BAUGENEHMIGUNG" \in stages_seen THEN "BAUGENEHMIGUNG"
        ELSE IF "BAUVORBESCHEID" \in stages_seen THEN "BAUVORBESCHEID"
        ELSE IF "PERMIT_36" \in stages_seen THEN "PERMIT_36"
        ELSE IF "BPLAN_SATZUNG" \in stages_seen THEN "BPLAN_SATZUNG"
        ELSE IF "BPLAN_AUSLEGUNG" \in stages_seen THEN "BPLAN_AUSLEGUNG"
        ELSE IF "BPLAN_AUFSTELLUNG" \in stages_seen THEN "BPLAN_AUFSTELLUNG"
        ELSE "DISCOVERED"

\* The group the plan-number pattern captures in one lower-cased phrase.
plan_token_of(phrase) ==
    IF phrase = "bebauungsplan nr. 12" THEN "12" ELSE NULL

\* First match of the pattern in title + " " + text.
extract_plan_token(title, text) ==
    LET tokens == {plan_token_of(p) : p \in Lowered(title \cup text)} \ {NULL}
    IN  IF tokens = {} THEN NULL ELSE CHOOSE t \in tokens : TRUE

\* Suffix stripping and lower-casing of a company name.
normalize_company_name(company) ==
    CASE company = NULL -> NULL
      [] company = "Sonnen GmbH" -> "sonnen"
      [] company = "SONNEN AG" -> "sonnen"
      [] OTHER -> company

\* The parts gemarkung=, flur= and flurstueck= the patterns find in the
\* lower-cased location, joined with ";".
extract_parcel_token(site_location_raw) ==
    CASE site_location_raw = "Gemarkung Seelow, Flur 3, Flurstück 12"
             -> "gemarkung=seelow;flur=3;flurstueck=12"
      [] site_location_raw = "Flur 3" -> "flur=3"
      [] OTHER -> NULL

compute_project_signature(procedure, classifier_result) ==
    LET title == procedure.title_raw
        evidence == IF ~truthy(classifier_result) THEN {}
                    ELSE dict_get(classifier_result, "evidence_snippets", {})
    IN  [plan_token |-> extract_plan_token(title, title \cup evidence),
         parcel_token |-> extract_parcel_token(
                              dict_get(procedure, "site_location_raw", NULL)),
         developer_token |-> normalize_company_name(
                                 dict_get(procedure, "developer_company", NULL)),
         title_signature |-> Lowered(title)]

\* SQL `name LIKE '%token%'` on a name given as a set of phrases; the NULL
\* name is the empty set.
like(name, token) ==
    \E p \in name : <<token, p>> \in {<<"12", "B-Plan 12">>,
                                     <<"12", "Bebauungsplan Nr. 12">>}

\* The results find_matching_project can return: each query has LIMIT 1 and
\* no ORDER BY, so any matching row may come first.  {} stands for None.
find_matching_project(signature, municipality_key, pe) ==
    LET here == {p \in DOMAIN pe : pe[p].municipality_key = municipality_key}
        parcel == IF signature.parcel_token = NULL THEN {}
                  ELSE {p \in here :
                           \* site_location_best LIKE '%parcel_token%'
                           \/ pe[p].site_location_best = signature.parcel_token
                           \/ /\ signature.parcel_token = "flur=3"
                              /\ pe[p].site_location_best
                                     = "gemarkung=seelow;flur=3;flurstueck=12"}
        plan == IF signature.plan_token = NULL THEN {}
                ELSE {p \in here : like(pe[p].canonical_project_name,
                                        signature.plan_token)}
        dev == IF signature.developer_token = NULL \/ signature.title_signature = {}
               THEN {}
               ELSE {p \in here : /\ pe[p].developer_company_best /= NULL
                                  /\ normalize_company_name(pe[p].developer_company_best)
                                     = signature.developer_token}
    IN  IF parcel /= {} THEN {<<p, 95, "PARCEL_MATCH">> : p \in parcel}
        ELSE IF plan /= {} THEN {<<p, 90, "PLAN_TOKEN_MATCH">> : p \in plan}
        ELSE {<<p, 80, "DEV+TITLE_MATCH">> : p \in dev}

\* compute_best_fields for the one procedure a new project is created from.
compute_best_fields(proc, signature) ==
    [canonical_project_name |->
         IF signature.plan_token /= NULL THEN {"B-Plan 12"} ELSE proc.title_raw,
     site_location_best |-> IF signature.parcel_token /= NULL
                            THEN signature.parcel_token
                            ELSE dict_get(proc, "site_location_raw", NULL),
     developer_company_best |-> dict_get(proc, "developer_company", NULL),
     legal_basis_best |-> dict_get(proc, "legal_basis", NULL)]

(***************************************************************************)
(* Project tables (apps/db/dao.py)                                         *)
(***************************************************************************)
\* The row the INSERT ... ON CONFLICT (project_id) DO UPDATE leaves behind.
\* project_id is the row's own id, or the generated one when it has none.
upsert_project_row(pe, project_id, row) ==
    IF project_id \notin DOMAIN pe
    THEN row
    ELSE LET old == pe[project_id]
             coalesce(a, b) == IF a /= NULL THEN a ELSE b
         IN  [municipality_key |-> old.municipality_key,
              canonical_project_name |->
                  IF row.canonical_project_name /= {} THEN row.canonical_project_name
                  ELSE old.canonical_project_name,
              site_location_best |-> coalesce(row.site_location_best,
                                              old.site_location_best),
              developer_company_best |-> coalesce(row.developer_company_best,
                                                  old.developer_company_best),
              legal_basis_best |->
                  IF row.legal_basis_best \in {"§35", "§34"} THEN row.legal_basis_best
                  ELSE IF old.legal_basis_best \in {"§35", "§34"}
                  THEN old.legal_basis_best
                  ELSE coalesce(row.legal_basis_best, old.legal_basis_best),
              maturity_stage |-> row.maturity_stage,
              needs_review |-> row.needs_review \/ old.needs_review]

\* INSERT INTO project_procedures ... ON CONFLICT (project_id, procedure_id) DO
\* UPDATE; the primary key is the pair.
link_rows(pp, project_id, procedure_id, link_confidence, link_reason) ==
    {l \in pp : ~(l.project_id = project_id /\ l.procedure_id = procedure_id)}
    \cup {[project_id |-> project_id, procedure_id |-> procedure_id,
           link_confidence |-> link_confidence, link_reason |-> link_reason]}

\* The foreign keys of project_procedures.
link_allowed(pe, procs, project_id, procedure_id) ==
    project_id \in DOMAIN pe /\ procedure_id \in DOMAIN procs

(***************************************************************************)
(* Project linking (apps/worker/project_linking.py)                        *)
(***************************************************************************)
\* upsert_project_entity's INSERT has no RETURNING clause: the fetchone after
\* it raises (the project row stays written), or yields no row and the
\* function falls back to a fresh uuid4 that names no project row.
\* The outcomes of one call on the tables T, with identifiers drawn from
\* uuid4(base + 1) on.  result is "None" (gate rejected), "linked",
\* "raised" (an exception that leaves the transaction usable) or "failed"
\* (a statement failed and the transaction is aborted).
link_procedure_to_project_entity(proc_norm, classifier_result, raw, T, base) ==
    LET discovery_source ==
            IF dict_get(raw, "discovery_source", NULL) /= NULL
            THEN raw.discovery_source
            ELSE dict_get(proc_norm, "discovery_source", NULL)
        extracted_text ==
            IF "extracted_text" \in DOMAIN raw THEN raw.extracted_text
            ELSE dict_get(raw, "all_text", {})
        gate == is_valid_procedure(dict_get(proc_norm, "title_norm", {}),
                                   dict_get(raw, "url", ""), discovery_source,
                                   classifier_result, extracted_text)
        signature == compute_project_signature(proc_norm, classifier_result)
        municipality_key == dict_get(proc_norm, "municipality_key", "")
        procedure_type == dict_get(proc_norm, "procedure_type", NULL)
        matches == find_matching_project(signature, municipality_key,
                                         T.project_entities)
        out(src, pe, pp, result, drawn) ==
            [sources |-> src, project_entities |-> pe, project_procedures |-> pp,
             result |-> result, drawn |-> drawn]
        same(result, drawn) ==
            out(T.sources, T.project_entities, T.project_procedures, result, drawn)
        project_data ==
            compute_best_fields(proc_norm, signature)
            @@ [municipality_key |-> municipality_key,
                maturity_stage |->
                    IF procedure_type = "PERMIT_36_EINVERNEHMEN" THEN "PERMIT_36"
                    ELSE compute_maturity_stage(IF procedure_type /= NULL
                                                THEN {procedure_type} ELSE {}),
                needs_review |-> IF ~truthy(classifier_result) THEN FALSE
                                 ELSE dict_get(classifier_result, "review_recommended",
                                               FALSE)]
        created == Put(T.project_entities, uuid4(base + 1),
                       upsert_project_row(T.project_entities, uuid4(base + 1),
                                          project_data))
    IN  IF ~gate[1]
        THEN {out(T.sources \cup {[source_id |-> uuid4(base + 1), procedure_id |-> NullId,
                                   source_url |-> dict_get(raw, "url", "")]},
                  T.project_entities, T.project_procedures, "None", 1),
              same("failed", 1)}
        ELSE IF matches /= {}
        THEN {IF link_allowed(T.project_entities, T.procedures, m[1],
                              proc_norm.procedure_id)
              THEN out(T.sources, T.project_entities,
                       link_rows(T.project_procedures, m[1], proc_norm.procedure_id,
                                 m[2], m[3]),
                       "linked", 0)
              ELSE same("failed", 0) : m \in matches}
        ELSE {out(T.sources, created, T.project_procedures, "raised", 1),
              \* fallback id uuid4(base + 2) names no project: the link violates
              \* the foreign key
              same("failed", 2)}

(***************************************************************************)
(* Discovery worker (apps/worker/discovery_worker.py)                      *)
(***************************************************************************)
\* The order in which a listing page shows its entries.
Position(item) ==
    CASE item = RisAgendaItem -> 1
      [] item = RisPermitItem -> 2
      [] item = RisSessionItem -> 3
      [] item = RisPlanItem -> 4
      [] OTHER -> 1

RECURSIVE Listing(_)
\* The entries S in page order.
Listing(S) ==
    IF S = {} THEN <<>>
    ELSE LET first == CHOOSE i \in S : \A o \in S : Position(i) <= Position(o)
         IN  <<first>> \o Listing(S \ {first})

\* The candidate dict the worker builds from a listing entry.
candidate_of(item, w) ==
    [municipality_key |-> wk[w].payload.municipality_key,
     discovery_source |-> item.discovery_source, title |-> item.title,
     date_hint |-> item.date, url |-> item.url, doc_urls |-> item.doc_urls,
     prefilter_score |-> prefilter_score(item.title, item.url),
     status |-> "NEW", reason |-> NULL]

\* The body of the try block up to save_candidates: the read of
\* municipality_seed and the crawler of the job's source.
crawl(w) ==
    /\ wk[w].pc = "crawl"
    /\ \/ \* get_official_url raises: outer handler
          /\ Goto(w, At(w, "save_stats_error"))
          /\ found' = found
       \/ \* the crawler raises: caught in the branch, empty list
          /\ \E st \in {"ERROR_SSL", "ERROR_NETWORK", "ERROR_OTHER"} :
                Goto(w, [wk[w] EXCEPT !.pc = "save_candidates"]
                        @@ [source_status |-> st, candidates |-> <<>>, idx |-> 1,
                            txn |-> <<>>, aborted |-> FALSE, first |-> found])
          /\ found' = found
       \/ \* the crawler returns listing entries of its source
          \E entries \in SUBSET {i \in Items : i.discovery_source
                                      = SourceOfCrawler(wk[w].payload.source)} :
          LET items == Listing(entries) IN
             /\ Len(items) <= MaxCand - found
             /\ Goto(w, [wk[w] EXCEPT !.pc = "save_candidates"]
                        @@ [source_status |-> "SUCCESS",
                            candidates |-> [k \in 1..Len(items) |->
                                               candidate_of(items[k], w)],
                            idx |-> 1, txn |-> <<>>, aborted |-> FALSE, first |-> found])
             /\ found' = found + Len(items)
    /\ UNCHANGED <<queue, db, uuids, cycles, crawl_mode>>
    /\ UNCHANGED rest

\* INSERT INTO crawl_candidates ... RETURNING candidate_id, in the open transaction.
insert_candidate(txn, id, row) ==
    Put(txn, id, [row EXCEPT !.date_hint = date_column(row.date_hint)])

\* A variant of update_candidate_status that writes the status alone.
update_status_only(table, id, status, reason) ==
    IF id \in DOMAIN table THEN [table EXCEPT ![id].status = status] ELSE table

\* UPDATE crawl_candidates SET status, reason = COALESCE(new reason, reason).
update_candidate_status(table, id, status, reason) ==
    IF id \in DOMAIN table
    THEN [table EXCEPT ![id].status = status,
                       ![id].reason = IF reason /= NULL THEN reason ELSE @]
    ELSE table

extraction_payload(w, candidate_id) ==
    [candidate_id |-> candidate_id, run_id |-> w, region |-> wk[w].payload.region,
     source |-> wk[w].payload.source,
     municipality_key |-> wk[w].payload.municipality_key, mode |-> wk[w].mode]

\* One iteration of the loop of save_candidates.  The transaction stays open
\* across iterations; rpush is visible to the other workers at once.  A failed
\* statement aborts the transaction: its rows are lost and every later
\* statement fails too; each failure is caught and the loop continues.
save_candidates(w) ==
    /\ wk[w].pc = "save_candidates"
    /\ wk[w].idx <= Len(wk[w].candidates)
    /\ LET j == wk[w]
           candidate == j.candidates[j.idx]
           \* gen_random_uuid() for the (first + idx)-th candidate crawled
           id == <<j.first + j.idx>>
           inserted == insert_candidate(j.txn, id, candidate)
           next(txn, aborted) ==
               Goto(w, [j EXCEPT !.idx = @ + 1, !.txn = txn, !.aborted = aborted])
       IN  \/ \* insert_candidate fails
              /\ next(<<>>, TRUE)
              /\ queue' = queue
           \/ /\ ~j.aborted
              /\ IF should_extract(candidate.prefilter_score, j.mode,
                                   candidate.discovery_source)
                 THEN \/ \* rpush raises: the row stays NEW
                         /\ next(inserted, FALSE)
                         /\ queue' = queue
                      \/ /\ has_room(queue)
                         /\ queue' = enqueue_job(queue, extraction_payload(w, id))
                         /\ \/ next(update_candidate_status(inserted, id, "ENQUEUED",
                                                            NULL), FALSE)
                            \/ next(<<>>, TRUE)
                 ELSE /\ queue' = queue
                      /\ \/ next(update_candidate_status(inserted, id, "SKIPPED",
                                                         "prefilter_score < threshold"),
                                 FALSE)
                         \/ next(<<>>, TRUE)
    /\ UNCHANGED <<db, uuids, cycles, found, crawl_mode>>
    /\ UNCHANGED rest

\* End of save_candidates: the connection block commits, which on an aborted
\* transaction is a rollback; a lost connection raises into the outer handler.
save_candidates_commit(w) ==
    /\ wk[w].pc = "save_candidates"
    /\ wk[w].idx > Len(wk[w].candidates)
    /\ \/ /\ crawl_candidates' = [id \in DOMAIN crawl_candidates \cup DOMAIN wk[w].txn |->
                                     IF id \in DOMAIN wk[w].txn THEN wk[w].txn[id]
                                     ELSE crawl_candidates[id]]
          /\ Goto(w, Keep(w, "save_stats", {"source_status"}))
       \/ /\ crawl_candidates' = crawl_candidates
          /\ Goto(w, Keep(w, "save_stats_error", {}))
    /\ UNCHANGED <<queue, procedures, sources, documents, project_entities,
                   project_procedures, crawl_stats, uuids, cycles, found, crawl_mode>>
    /\ UNCHANGED rest

\* save_stats, then log_municipality_summary, which never raises.
save_stats(w) ==
    /\ wk[w].pc = "save_stats"
    /\ \/ /\ crawl_stats' = insert_crawl_stats(crawl_stats,
                                               stats_row(w, wk[w].source_status))
          /\ \E line \in log_municipality_summary(crawl_stats',
                                                     wk[w].payload.municipality_key, w) :
                 summary_log' = Append(summary_log, line)
          /\ Goto(w, At(w, "returned"))
       \/ /\ crawl_stats' = crawl_stats
          /\ summary_log' = summary_log
          /\ Goto(w, Keep(w, "save_stats_error", {}))
    /\ UNCHANGED <<queue, crawl_candidates, procedures, sources, documents,
                   project_entities, project_procedures, uuids, cycles, found, crawl_mode>>
    /\ UNCHANGED <<reruns, net, age, listing, ris_walk, text_cache, extraction>>

\* The except block of process_discovery_job: source_status = ERROR_OTHER and
\* save_stats_error, which is not itself protected.
save_stats_error(w) ==
    /\ wk[w].pc = "save_stats_error"
    /\ \/ /\ crawl_stats' = insert_crawl_stats(crawl_stats, stats_row(w, "ERROR_OTHER"))
          /\ \E line \in log_municipality_summary(crawl_stats',
                                                     wk[w].payload.municipality_key, w) :
                 summary_log' = Append(summary_log, line)
          /\ Goto(w, [At(w, "returned") EXCEPT !.handled = TRUE])
       \/ /\ crawl_stats' = crawl_stats
          /\ summary_log' = summary_log
          /\ Goto(w, [At(w, "raised") EXCEPT !.handled = TRUE])
    /\ UNCHANGED <<queue, crawl_candidates, procedures, sources, documents,
                   project_entities, project_procedures, uuids, cycles, found, crawl_mode>>
    /\ UNCHANGED <<reruns, net, age, listing, ris_walk, text_cache, extraction>>

(***************************************************************************)
(* Extraction worker (apps/worker/extraction_worker.py)                    *)
(***************************************************************************)
\* proc_norm; its classifier fields (lines 264-276) are set only when the
\* result has is_relevant or is_candidate, and read as None otherwise.
proc_norm_of(municipality_key, candidate, classifier_result, procedure_id) ==
    LET tagged == dict_get(classifier_result, "is_relevant", FALSE)
                  \/ dict_get(classifier_result, "is_candidate", FALSE)
        proc_type == dict_get(classifier_result, "procedure_type", NULL)
    IN  [procedure_id |-> procedure_id, title_raw |-> candidate.title,
         title_norm |-> Lowered(candidate.title),
         municipality_key |-> municipality_key,
         discovery_source |-> candidate.discovery_source,
         procedure_type |-> IF ~tagged THEN NULL
                            ELSE IF proc_type = NULL THEN "UNKNOWN" ELSE proc_type,
         review_recommended |->
             IF ~tagged THEN FALSE
             ELSE IF proc_type = NULL THEN TRUE
             ELSE dict_get(classifier_result, "review_recommended", FALSE),
         legal_basis |-> IF ~tagged THEN NULL
                         ELSE dict_get(classifier_result, "legal_basis", NULL)]

\* Lines 98-285 for the row c that get_candidate returned: download the page
\* and up to five documents, classify, apply the container gate and build
\* proc_norm.  Nothing shared is touched.
fetch_and_classify(w, c) ==
    LET title_lower == Lowered(c.title)
        privileged == AnyIn({"einvernehmen", "bauantrag", "bauvorbescheid",
                             "vorbescheid", "stellungnahme", "energie", "speicher",
                             "photovoltaik", "umspannwerk"}, title_lower)
        job == [existed |-> TRUE] @@ wk[w]
    IN  \E page_ok \in BOOLEAN, agenda_ok \in BOOLEAN, pdf_ok \in BOOLEAN :
           LET html_text == IF page_ok THEN page_text(c.url) ELSE {}
               doc_urls == IF c.doc_urls = <<>> /\ c.discovery_source = "RIS"
                              /\ privileged /\ agenda_ok
                           THEN agenda_documents(c.url)
                           ELSE c.doc_urls
               docs == IF pdf_ok THEN {doc_urls[k] : k \in 1..Min(5, Len(doc_urls))}
                       ELSE {}
               all_text == c.title \cup html_text \cup UNION {pdf_text(d) : d \in docs}
               proc_date == IF c.date_hint = NULL THEN "datetime:2024" ELSE c.date_hint
               classifier_result == classify_relevance(all_text, c.title, proc_date)
               gate == is_valid_procedure(title_lower, c.url, c.discovery_source,
                                          classifier_result, all_text)
           IN  IF classify_relevance_raises(all_text, c.title, proc_date)
               THEN /\ Goto(w, [job EXCEPT !.pc = "mark_error"])
                    /\ uuids' = uuids
               ELSE IF ~gate[1]
               THEN /\ Goto(w, [skip_reason |-> gate[2], url |-> c.url]
                               @@ [job EXCEPT !.pc = "mark_skipped"])
                    /\ uuids' = uuids
               ELSE /\ Goto(w, [docs |-> docs, classifier_result |-> classifier_result,
                                url |-> c.url, discovery_source |-> c.discovery_source,
                                proc_norm |-> proc_norm_of(
                                                 wk[w].payload.municipality_key, c,
                                                 classifier_result, uuid4(1))]
                               @@ [job EXCEPT !.pc = "save_procedure"])
                    /\ uuids' = uuids + 1

\* Lines 67-96: get_candidate in its own transaction; a missing row makes the
\* function return at once.  What follows the read up to the first write is
\* local and belongs to the same step.
get_candidate(w) ==
    /\ wk[w].pc = "get_candidate"
    /\ LET id == wk[w].payload.candidate_id
       IN  \/ \* the read fails
              /\ Goto(w, [existed |-> id \in DOMAIN crawl_candidates]
                         @@ At(w, "mark_error"))
              /\ uuids' = uuids
           \/ /\ id \notin DOMAIN crawl_candidates
              /\ Goto(w, [existed |-> FALSE] @@ At(w, "returned"))
              /\ uuids' = uuids
           \/ /\ id \in DOMAIN crawl_candidates
              /\ fetch_and_classify(w, crawl_candidates[id])
    /\ UNCHANGED <<queue, db, cycles, found, crawl_mode>>
    /\ UNCHANGED rest

\* The gate rejected: mark_skipped in its own transaction, then return.
mark_skipped(w) ==
    /\ wk[w].pc = "mark_skipped"
    /\ \/ /\ crawl_candidates' = update_candidate_status(crawl_candidates,
                                     wk[w].payload.candidate_id, "SKIPPED",
                                     wk[w].skip_reason)
          /\ Goto(w, At(w, "returned"))
       \/ /\ crawl_candidates' = crawl_candidates
          /\ Goto(w, Keep(w, "mark_error", {"existed", "skip_reason", "url"}))
    /\ UNCHANGED <<queue, procedures, sources, documents, project_entities,
                   project_procedures, crawl_stats, uuids, cycles, found, crawl_mode>>
    /\ UNCHANGED rest

\* save_procedure: one transaction for the procedure, its source, its
\* documents, the project link and the DONE status.  A statement either
\* executes or raises (lost connection, constraint, a named parameter the row
\* lacks, as upsert_procedure's query has for the row built at lines 230-276);
\* the executing outcome is kept so that the rest of the transaction is
\* examined.  An exception of the linking call is caught (lines 321-331); if
\* it left the transaction aborted the final UPDATE fails and all is rolled
\* back.  A document row is identified by its source and URL.
save_procedure(w) ==
    /\ wk[w].pc = "save_procedure"
    /\ LET j == wk[w]
           p == j.proc_norm
           source_id == uuid4(1)
           upserted == Put(procedures, p.procedure_id, p)
           with_source == sources \cup {[source_id |-> source_id,
                                         procedure_id |-> p.procedure_id,
                                         source_url |-> j.url]}
           with_documents == documents \cup {[source_id |-> source_id, doc_url |-> d] :
                                               d \in j.docs}
           raw == [url |-> j.url, discovery_source |-> j.discovery_source]
           outcomes == link_procedure_to_project_entity(
                           p, j.classifier_result, raw,
                           [procedures |-> upserted, sources |-> with_source,
                            project_entities |-> project_entities,
                            project_procedures |-> project_procedures], 1)
       IN  \/ \* a statement or the commit fails: rollback, outer handler
              /\ Goto(w, Keep(w, "mark_error", {"existed"}))
              /\ UNCHANGED <<db, uuids>>
           \/ \E o \in outcomes :
                 /\ o.result /= "failed"
                 /\ procedures' = upserted
                 /\ sources' = o.sources
                 /\ documents' = with_documents
                 /\ project_entities' = o.project_entities
                 /\ project_procedures' = o.project_procedures
                 /\ crawl_candidates' = update_candidate_status(
                                            crawl_candidates, j.payload.candidate_id,
                                            "DONE", NULL)
                 /\ crawl_stats' = crawl_stats
                 /\ uuids' = uuids + 1 + o.drawn
                 /\ Goto(w, [link_result |-> o.result, procedure_id |-> p.procedure_id]
                            @@ Keep(w, "save_stats_extraction", {"existed", "url"}))
    /\ UNCHANGED <<queue, cycles, found, crawl_mode>>
    /\ UNCHANGED rest

\* save_stats of process_extraction_job (lines 344-356).
save_stats_extraction(w) ==
    /\ wk[w].pc = "save_stats_extraction"
    /\ \/ /\ crawl_stats' = insert_crawl_stats(crawl_stats, stats_row(w, NULL))
          /\ Goto(w, At(w, "returned"))
       \/ /\ crawl_stats' = crawl_stats
          /\ Goto(w, Keep(w, "mark_error", {"existed", "url", "link_result", "procedure_id"}))
    /\ UNCHANGED <<queue, crawl_candidates, procedures, sources, documents,
                   project_entities, project_procedures, uuids, cycles, found, crawl_mode>>
    /\ UNCHANGED rest

\* The except block of process_extraction_job: mark_error in its own
\* transaction, then re-raise.  If mark_error fails its exception propagates.
mark_error(w) ==
    /\ wk[w].pc = "mark_error"
    /\ \/ /\ crawl_candidates' = update_candidate_status(crawl_candidates,
                                     wk[w].payload.candidate_id, "ERROR", "str(e)")
          /\ Goto(w, [At(w, "raised") EXCEPT !.handled = TRUE])
       \/ /\ crawl_candidates' = crawl_candidates
          /\ Goto(w, [At(w, "raised") EXCEPT !.handled = TRUE, !.mark_failed = TRUE])
    /\ UNCHANGED <<queue, procedures, sources, documents, project_entities,
                   project_procedures, crawl_stats, uuids, cycles, found, crawl_mode>>
    /\ UNCHANGED rest

(***************************************************************************)
(* The pipeline                                                            *)
(***************************************************************************)
\* Everything but the inputs of the text functions and of list_procedures.
InitState ==
    /\ queue = <<>>
    /\ crawl_candidates = <<>>
    /\ procedures = <<>>
    /\ sources = {}
    /\ documents = {}
    /\ project_entities = <<>>
    /\ project_procedures = {}
    /\ crawl_stats = {}
    /\ wk = [w \in Workers |-> Idle]
    /\ uuids = 0
    /\ cycles = 0
    /\ found = 0
    /\ crawl_mode = "fast"
    /\ reruns = 0
    /\ clock = 0
    /\ call = [p \in Workers |-> NoCall(0)]
    /\ last_request_time = [p \in Workers |-> [d \in Netlocs |-> -1]]
    /\ semaphores = [p \in Workers |-> [global |-> 0, domain |-> [d \in Netlocs |-> 0]]]
    /\ cache = [u \in NetUrls |-> NoDict]
    /\ ssl_metrics = [p \in Workers |-> [ssl_errors_total |-> 0,
                                          ssl_fallback_used_total |-> 0,
                                          http_fallback_used_total |-> 0]]
    /\ last_sent = [d \in Netlocs |-> -1]
    /\ age = [m \in municipality_seed |-> -1]
    /\ summary_log = <<>>

Init ==
    /\ InitState
    /\ listing = NoDict
    /\ ris_walk = NoDict
    /\ text_cache = <<>>
    /\ extraction = NoDict

Next ==
    \/ enqueue_municipality_discovery_jobs
    \/ \E w \in Workers : blpop(w)
    \/ \E w \in Workers : crawl(w)
    \/ \E w \in Workers : save_candidates(w)
    \/ \E w \in Workers : save_candidates_commit(w)
    \/ \E w \in Workers : save_stats(w)
    \/ \E w \in Workers : save_stats_error(w)
    \/ \E w \in Workers : get_candidate(w)
    \/ \E w \in Workers : mark_skipped(w)
    \/ \E w \in Workers : save_procedure(w)
    \/ \E w \in Workers : save_stats_extraction(w)
    \/ \E w \in Workers : mark_error(w)

Spec == Init /\ [][Next]_vars

\* The steps of worker w.
worker_step(w) ==
    \/ blpop(w)
    \/ crawl(w)
    \/ save_candidates(w)
    \/ save_candidates_commit(w)
    \/ save_stats(w)
    \/ save_stats_error(w)
    \/ get_candidate(w)
    \/ mark_skipped(w)
    \/ save_procedure(w)
    \/ save_stats_extraction(w)
    \/ mark_error(w)

\* Running workers are scheduled fairly: a worker that can take a step
\* (main.py:45-81 loops on blpop and the job it got) eventually takes one.
SpecLive == Spec /\ \A w \in Workers : WF_vars(worker_step(w))

(***************************************************************************)
(* The project tables under their own operations: upsert_procedure,        *)
(* link_procedure_to_project_entity, upsert_project_entity and             *)
(* link_procedure_to_project, each called in a transaction of its own by a *)
(* caller that, like save_procedure, catches the call's exception and      *)
(* commits.                                                                *)
(***************************************************************************)
\* The listing entries whose procedures the linking operations are run on.
\* RisRequestItem is an agenda item that names a building application only.
RisRequestItem ==
    [discovery_source |-> "RIS", title |-> {"Bauantrag"},
     url |-> "https://ris.example.de/to0050", date |-> NULL, doc_urls |-> <<>>]

LinkItems == {RisAgendaItem, RisPermitItem, WebsitePlanItem, RisRequestItem}

\* The classifier result for a procedure row, as the worker computed it from
\* the title.
classified(title) == classify_relevance(title, title, "datetime:2024")

\* What extraction finds in the documents of an item (extraction_worker.py,
\* lines 255-261): the developer company and the site location, if any.
Extracted(item) ==
    CASE item = RisPermitItem ->
             [developer_company |-> "SONNEN AG", site_location_raw |-> "Flur 3"]
      [] item = WebsitePlanItem ->
             [site_location_raw |-> "Gemarkung Seelow, Flur 3, Flurstück 12"]
      [] item = RisRequestItem -> [developer_company |-> "Sonnen GmbH"]
      [] OTHER -> <<>>

call_upsert_procedure ==
    /\ uuids < MaxIds
    /\ \E item \in LinkItems, m \in municipality_seed \ {"12060034"} :
          procedures' = Put(procedures, uuid4(1),
                            Extracted(item)
                            @@ proc_norm_of(m, item, classified(item.title), uuid4(1)))
    /\ uuids' = uuids + 1
    /\ UNCHANGED <<queue, crawl_candidates, sources, documents, project_entities,
                   project_procedures, crawl_stats, wk, cycles, found, crawl_mode>>
    /\ UNCHANGED rest

call_link_procedure_to_project_entity ==
    /\ \E id \in DOMAIN procedures, url \in {"https://www.example.de/planung"} :
       \E o \in link_procedure_to_project_entity(
                    procedures[id], classified(procedures[id].title_raw),
                    [url |-> url, discovery_source |-> procedures[id].discovery_source],
                    [procedures |-> procedures, sources |-> sources,
                     project_entities |-> project_entities,
                     project_procedures |-> project_procedures], 0) :
          /\ o.result /= "failed"
          /\ uuids + o.drawn <= MaxIds
          /\ sources' = o.sources
          /\ project_entities' = o.project_entities
          /\ project_procedures' = o.project_procedures
          /\ uuids' = uuids + o.drawn
    /\ UNCHANGED <<queue, crawl_candidates, procedures, documents, crawl_stats, wk,
                   cycles, found, crawl_mode>>
    /\ UNCHANGED rest

\* upsert_project_entity with a row that names an existing project or none.
\* The statement executes; the exception of the fetchone that follows is the
\* caller's to catch.
call_upsert_project_entity ==
    /\ \E project_id \in DOMAIN project_entities \cup {NullId},
          m \in Municipalities,
          name \in {{}, {"B-Plan 12"}},
          stage \in {"BPLAN_AUFSTELLUNG", "BAUGENEHMIGUNG"},
          legal_basis \in {NULL, "§34", "§35"} :
          LET id == IF project_id = NullId THEN uuid4(1) ELSE project_id
              row == [municipality_key |-> m, canonical_project_name |-> name,
                      site_location_best |-> NULL, developer_company_best |-> NULL,
                      legal_basis_best |-> legal_basis, maturity_stage |-> stage,
                      needs_review |-> FALSE]
          IN  /\ project_id = NullId => uuids < MaxIds
              /\ project_entities' = Put(project_entities, id,
                                         upsert_project_row(project_entities, id, row))
              /\ uuids' = IF project_id = NullId THEN uuids + 1 ELSE uuids
    /\ UNCHANGED <<queue, crawl_candidates, procedures, sources, documents,
                   project_procedures, crawl_stats, wk, cycles, found, crawl_mode>>
    /\ UNCHANGED rest

\* link_procedure_to_project for a project and a procedure that exist (the
\* foreign keys reject any other pair).
call_link_procedure_to_project ==
    /\ \E project_id \in DOMAIN project_entities, procedure_id \in DOMAIN procedures,
          l \in {<<100, "NEW_PROJECT">>, <<90, "PLAN_TOKEN_MATCH">>} :
          /\ link_allowed(project_entities, procedures, project_id, procedure_id)
          /\ project_procedures' = link_rows(project_procedures, project_id,
                                             procedure_id, l[1], l[2])
    /\ UNCHANGED <<queue, crawl_candidates, procedures, sources, documents,
                   project_entities, crawl_stats, wk, uuids, cycles, found, crawl_mode>>
    /\ UNCHANGED rest

NextLink ==
    \/ call_upsert_procedure
    \/ call_link_procedure_to_project_entity
    \/ call_upsert_project_entity
    \/ call_link_procedure_to_project

SpecLink == Init /\ [][NextLink]_vars

(***************************************************************************)
(* The pipeline with jobs that are handed to the workers a second time.    *)
(***************************************************************************)
\* The payload of a job that has returned is pushed to the list again, once
\* the workers are all between two jobs.
enqueue_again(w) ==
    /\ wk[w].pc = "returned"
    /\ \A v \in Workers : loop_ready(wk[v].pc)
    /\ Cardinality(DOMAIN crawl_candidates) \in 1 .. MaxRerunCand
    /\ reruns < MaxReruns
    /\ has_room(queue)
    /\ queue' = enqueue_job(queue, wk[w].payload)
    /\ reruns' = reruns + 1
    /\ UNCHANGED <<db, wk, uuids, cycles, found, crawl_mode, net, age, summary_log, listing, ris_walk, text_cache, extraction>>

NextRerun ==
    \/ Next
    \/ \E w \in Workers : enqueue_again(w)

SpecRerun == Init /\ [][NextRerun]_vars

\* The variables of the pipeline, which no step of the network layer touches.
pipeline == <<queue, db, wk, uuids, cycles, found, crawl_mode, reruns, age,
              summary_log, listing, ris_walk, text_cache, extraction>>

\* One second passes.
tick ==
    /\ clock < MaxTime
    /\ clock' = clock + 1
    /\ UNCHANGED <<pipeline, call, last_request_time, semaphores, cache, ssl_metrics,
                   last_sent>>

\* get_cached without max_age_seconds: an entry never expires.
get_cached(url) == cache[url]

\* set_cached: the body with the ETag header of the response.
set_cached(url, content, etag) ==
    [cache EXCEPT ![url] = [content |-> content, etag |-> etag]]

\* get_cache_headers: If-None-Match of the cached entry, if it has an ETag.
get_cache_headers(url) ==
    IF truthy(get_cached(url)) THEN get_cached(url).etag ELSE NULL

\* release: both semaphores of the process are given back.
release(sem, url) ==
    [sem EXCEPT !.global = @ - 1, !.domain[netloc(url)] = @ - 1]

\* A return that gives the semaphores back after download_cached only.
return_releasing_get_only(p, c, result) ==
    /\ call' = [call EXCEPT ![p] = [c EXCEPT !.pc = "done", !.result = result,
                                             !.attempt = 0, !.wake = 0]]
    /\ semaphores' = IF c.fn = "download_cached"
                     THEN [semaphores EXCEPT ![p] = release(@, c.url)]
                     ELSE semaphores

\* The call of process p returns (or raises) result; download_cached and
\* head_cached release their semaphores in the finally clause.
return(p, c, result) ==
    /\ call' = [call EXCEPT ![p] = [c EXCEPT !.pc = "done", !.result = result,
                                             !.attempt = 0, !.wake = 0]]
    /\ semaphores' = IF c.fn \in {"download_cached", "head_cached"}
                     THEN [semaphores EXCEPT ![p] = release(@, c.url)]
                     ELSE semaphores

\* The end of one turn of the retry loop of download_cached that has not
\* returned: sleep 2 ** attempt unless it was the last attempt.
next_attempt(p, c) ==
    IF c.attempt < crawl_retries - 1
    THEN /\ call' = [call EXCEPT ![p] = [c EXCEPT !.pc = "send",
                                                   !.wake = clock + 2 ^ c.attempt,
                                                   !.attempt = @ + 1]]
         /\ UNCHANGED semaphores
    ELSE return(p, c, None)

\* A new call of fn by a process that is in no call.
Enter(p, fn, url) ==
    [NoCall(call[p].n + 1) EXCEPT !.fn = fn, !.url = url, !.cached = get_cached(url)]

\* The calls made so far by all processes.
Calls == Cardinality({<<q, k>> \in Workers \X (1 .. MaxCalls) : k <= call[q].n})

CanCall(p) == call[p].pc \in {"idle", "done"} /\ Calls < MaxCalls

\* download_cached up to acquire: robots.txt, then the cache; a cached entry
\* is returned at once.
call_download_cached(p) ==
    /\ CanCall(p)
    /\ \E url \in FetchUrls, use_cache \in UseCache, check_robots_txt \in BOOLEAN :
         LET c == [Enter(p, "download_cached", url) EXCEPT !.use_cache = use_cache,
                                                            !.robots = check_robots_txt]
         IN  call' = [call EXCEPT ![p] =
                 IF ~check_robots_txt THEN [c EXCEPT !.pc = "done", !.result = None]
                 ELSE IF use_cache /\ truthy(get_cached(url))
                      THEN [c EXCEPT !.pc = "done",
                                     !.result = Content(get_cached(url).content,
                                                        get_cached(url).etag)]
                      ELSE [c EXCEPT !.pc = "acquire"]]
    /\ UNCHANGED <<pipeline, clock, last_request_time, semaphores, cache, ssl_metrics,
                   last_sent>>

\* acquire: the global semaphore, then the semaphore of the netloc, both those
\* of the calling process; the jitter is shorter than a second.
acquire(p) ==
    /\ call[p].pc = "acquire"
    /\ semaphores[p].global < _global_concurrency
    /\ semaphores[p].domain[netloc(call[p].url)] < _per_domain_concurrency
    /\ semaphores' = [semaphores EXCEPT ![p].global = @ + 1,
                                        ![p].domain[netloc(call[p].url)] = @ + 1]
    /\ call' = [call EXCEPT ![p].pc = "rate_limit"]
    /\ UNCHANGED <<pipeline, clock, last_request_time, cache, ssl_metrics, last_sent>>

\* The delay _rate_limit keeps for a netloc.
min_delay(domain) ==
    IF domain \in DOMAIN DOMAIN_DELAYS THEN DOMAIN_DELAYS[domain] ELSE MIN_REQUEST_DELAY

\* _rate_limit, called by download_cached once before the retry loop: the
\* process sleeps until min_delay has passed since its own last stamp for the
\* netloc and stamps the time; download_cached then reads the conditional
\* headers from the cache.
rate_limit(p) ==
    LET c == call[p]
        domain == netloc(c.url)
    IN  /\ c.pc = "rate_limit"
        /\ \/ last_request_time[p][domain] = -1
           \/ clock >= last_request_time[p][domain] + min_delay(domain)
        /\ last_request_time' = [last_request_time EXCEPT ![p][domain] = clock]
        /\ call' = [call EXCEPT ![p] =
               [c EXCEPT !.pc = "send",
                         !.if_none_match = IF c.use_cache
                                           THEN get_cache_headers(c.url) ELSE NULL]]
        /\ UNCHANGED <<pipeline, clock, semaphores, cache, ssl_metrics, last_sent>>

\* A request goes on the wire of its netloc.
on_wire(p, c, pc) ==
    /\ call' = [call EXCEPT ![p] = [c EXCEPT !.pc = pc, !.requests = @ + 1, !.wake = 0,
                                             !.insecure = IF pc = "requesting" THEN @ ELSE @ + 1,
                                             !.http_requests = IF pc = "requesting_http"
                                                               THEN @ + 1 ELSE @]]
    /\ last_sent' = [last_sent EXCEPT ![netloc(c.url)] = clock]

\* One turn of the retry loop of download_cached starts, once the backoff
\* sleep is over: requests.get sends the request.
send(p) ==
    /\ call[p].pc = "send"
    /\ clock >= call[p].wake
    /\ on_wire(p, call[p], "requesting")
    /\ UNCHANGED <<pipeline, clock, last_request_time, semaphores, cache, ssl_metrics>>

\* requests.get of download_cached returns or raises.
requests_get_returns(p) ==
    LET c == call[p] IN
    /\ c.pc = "requesting"
    /\ c.fn = "download_cached"
    /\ \E outcome \in Outcomes(c, scheme(c.url)) :
         LET d == [c EXCEPT !.outcome = outcome,
                            !.ssl_seen = @ \/ outcome = "ssl"]
         IN  CASE outcome = "304" /\ truthy(get_cached(c.url)) ->
                    /\ return(p, d, Content(get_cached(c.url).content,
                                            get_cached(c.url).etag))
                    /\ UNCHANGED cache
               [] outcome = "200" ->
                    \E etag \in ETags :
                        /\ return(p, d, Content("body", etag))
                        /\ cache' = IF c.use_cache THEN set_cached(c.url, "body", etag)
                                    ELSE cache
               [] outcome = "404" ->
                    /\ return(p, d, None)
                    /\ UNCHANGED cache
               [] OTHER ->
                    /\ next_attempt(p, d)
                    /\ UNCHANGED cache
    /\ UNCHANGED <<pipeline, clock, last_request_time, ssl_metrics, last_sent>>

\* head_cached up to acquire: robots.txt only, the cache is not consulted.
\* The conditional headers are always read from the cache.
call_head_cached(p) ==
    /\ CanCall(p)
    /\ \E url \in FetchUrls, check_robots_txt \in BOOLEAN :
         LET c == [Enter(p, "head_cached", url) EXCEPT !.use_cache = TRUE,
                                                       !.robots = check_robots_txt]
         IN  call' = [call EXCEPT ![p] =
                 IF ~check_robots_txt THEN [c EXCEPT !.pc = "done", !.result = None]
                 ELSE [c EXCEPT !.pc = "acquire"]]
    /\ UNCHANGED <<pipeline, clock, last_request_time, semaphores, cache, ssl_metrics,
                   last_sent>>

\* requests.head of head_cached returns or raises; there is no retry.  The
\* headers of a 200 are returned, the cached metadata on a 304, else None.
requests_head_returns(p) ==
    LET c == call[p] IN
    /\ c.pc = "requesting"
    /\ c.fn = "head_cached"
    /\ \E outcome \in Outcomes(c, scheme(c.url)) :
         LET d == [c EXCEPT !.outcome = outcome,
                            !.ssl_seen = @ \/ outcome = "ssl"]
         IN  CASE outcome = "200" ->
                    \E etag \in ETags : return(p, d, Content(NULL, etag))
               [] outcome = "304" /\ truthy(get_cached(c.url)) ->
                    return(p, d, Content(NULL, get_cached(c.url).etag))
               [] OTHER -> return(p, d, None)
    /\ UNCHANGED <<pipeline, clock, last_request_time, cache, ssl_metrics, last_sent>>

NextPermits ==
    \/ tick
    \/ \E p \in Workers : call_download_cached(p)
    \/ \E p \in Workers : call_head_cached(p)
    \/ \E p \in Workers : acquire(p)
    \/ \E p \in Workers : rate_limit(p)
    \/ \E p \in Workers : send(p)
    \/ \E p \in Workers : requests_get_returns(p)
    \/ \E p \in Workers : requests_head_returns(p)

SpecPermits == Init /\ [][NextPermits]_vars

\* record_ssl_error, record_ssl_fallback, record_http_fallback: the counters of
\* the calling process.
record_ssl_error(m) == [m EXCEPT !.ssl_errors_total = @ + 1]

record_ssl_fallback(m) == [m EXCEPT !.ssl_fallback_used_total = @ + 1]

record_http_fallback(m) == [m EXCEPT !.http_fallback_used_total = @ + 1]

\* A crawler calls safe_get(url): the verified request is sent.
call_safe_get(p) ==
    /\ CanCall(p)
    /\ \E url \in NetUrls : on_wire(p, Enter(p, "safe_get", url), "requesting")
    /\ UNCHANGED <<pipeline, clock, last_request_time, semaphores, cache, ssl_metrics>>

\* The verified request of safe_get returns or raises: a response is handed
\* back whatever its status; an SSLError is counted and, for a host of the
\* allow-list, followed by one request with verify=False, otherwise raised
\* again; any other exception gives None.
safe_get_returns(p) ==
    LET c == call[p] IN
    /\ c.pc = "requesting"
    /\ c.fn = "safe_get" \/ (c.fn = "ris_safe_get" /\ lower(scheme(c.url)) /= "https")
    /\ \E outcome \in Outcomes(c, scheme(c.url)) :
         LET d == [c EXCEPT !.outcome = outcome, !.ssl_seen = @ \/ outcome = "ssl"]
         IN  CASE outcome \in Statuses ->
                    /\ return(p, d, Response(outcome, "verified", "body"))
                    /\ UNCHANGED <<ssl_metrics, last_sent>>
               [] outcome = "ssl" ->
                    /\ ssl_metrics' = [ssl_metrics EXCEPT ![p] = record_ssl_error(@)]
                    /\ IF should_disable_ssl_verify(c.url)
                       THEN /\ on_wire(p, d, "requesting_insecure")
                            /\ UNCHANGED semaphores
                       ELSE /\ return(p, d, SSLError)
                            /\ UNCHANGED last_sent
               [] OTHER ->
                    /\ return(p, d, None)
                    /\ UNCHANGED <<ssl_metrics, last_sent>>
    /\ UNCHANGED <<pipeline, clock, last_request_time, cache>>

\* The request with verify=False returns or raises: a response is counted as
\* a fallback and handed back; any exception gives None.
safe_get_fallback_returns(p) ==
    LET c == call[p] IN
    /\ c.pc = "requesting_insecure"
    /\ \E outcome \in {"200", "404", "403", "ssl"} \cup Transient :
         LET d == [c EXCEPT !.outcome = outcome] IN
         IF outcome \in Statuses
         THEN /\ ssl_metrics' = [ssl_metrics EXCEPT ![p] = record_ssl_fallback(@)]
              /\ return(p, d, Response(outcome, "insecure", "body"))
         ELSE /\ return(p, d, None)
              /\ UNCHANGED ssl_metrics
    /\ UNCHANGED <<pipeline, clock, last_request_time, cache, last_sent>>

\* A crawler calls ris_safe_get(url): the first request is sent, by safe_get
\* if the URL is not an HTTPS one.
call_ris_safe_get(p) ==
    /\ CanCall(p)
    /\ \E url \in NetUrls : on_wire(p, Enter(p, "ris_safe_get", url), "requesting")
    /\ UNCHANGED <<pipeline, clock, last_request_time, semaphores, cache, ssl_metrics>>

\* The HTTPS request of ris_safe_get returns or raises: a 200 is returned,
\* any other status and any exception but the SSLError give None; after an
\* SSLError the same URL is requested over HTTP if CRAWL_ALLOW_HTTP_FALLBACK,
\* read at this moment, allows it.
ris_https_returns(p) ==
    LET c == call[p] IN
    /\ c.pc = "requesting"
    /\ c.fn = "ris_safe_get"
    /\ lower(scheme(c.url)) = "https"
    /\ \E outcome \in Outcomes(c, "https") :
         LET d == [c EXCEPT !.outcome = outcome, !.ssl_seen = @ \/ outcome = "ssl"]
         IN  CASE outcome = "200" ->
                    /\ \E body \in Bodies : return(p, d, Response("200", "https", body))
                    /\ UNCHANGED last_sent
               [] outcome = "ssl" ->
                    \E is_http_fallback_allowed \in BOOLEAN :
                        IF is_http_fallback_allowed
                        THEN /\ on_wire(p, [d EXCEPT !.switch = TRUE], "requesting_http")
                             /\ UNCHANGED semaphores
                        ELSE /\ return(p, d, None)
                             /\ UNCHANGED last_sent
               [] OTHER ->
                    /\ return(p, d, None)
                    /\ UNCHANGED last_sent
    /\ UNCHANGED <<pipeline, clock, last_request_time, cache, ssl_metrics>>

\* The HTTP request of the fallback returns or raises: the response is
\* returned and counted if it is accepted; everything else gives None.
ris_http_returns(p) ==
    LET c == call[p] IN
    /\ c.pc = "requesting_http"
    /\ \E outcome \in Outcomes(c, "http"), body \in Bodies :
         LET d == [c EXCEPT !.outcome = outcome] IN
         /\ outcome /= "200" => body = "<h1>Wartung</h1>"
         /\ IF outcome \in Statuses /\ http_fallback_accepted(outcome, body)
            THEN /\ ssl_metrics' = [ssl_metrics EXCEPT ![p] = record_http_fallback(@)]
                 /\ return(p, d, Response(outcome, "http", body))
            ELSE /\ return(p, d, None)
                 /\ UNCHANGED ssl_metrics
    /\ UNCHANGED <<pipeline, clock, last_request_time, cache, last_sent>>

NextFetch ==
    \/ tick
    \/ \E p \in Workers : call_download_cached(p)
    \/ \E p \in Workers : acquire(p)
    \/ \E p \in Workers : rate_limit(p)
    \/ \E p \in Workers : send(p)
    \/ \E p \in Workers : requests_get_returns(p)
    \/ \E p \in Workers : call_safe_get(p)
    \/ \E p \in Workers : safe_get_returns(p)
    \/ \E p \in Workers : safe_get_fallback_returns(p)

SpecFetch == Init /\ [][NextFetch]_vars

NextTls ==
    \/ \E p \in Workers : call_safe_get(p)
    \/ \E p \in Workers : safe_get_returns(p)
    \/ \E p \in Workers : safe_get_fallback_returns(p)
    \/ \E p \in Workers : call_ris_safe_get(p)
    \/ \E p \in Workers : ris_https_returns(p)
    \/ \E p \in Workers : ris_http_returns(p)

SpecTls == Init /\ [][NextTls]_vars

(***************************************************************************)
(* The orchestrator on a seed table of several municipalities.  The workers *)
(* are reduced to what the orchestrator sees of them: a discovery job       *)
(* leaves the queue and a crawl_stats row of its municipality is written.   *)
(***************************************************************************)
\* The query of get_due_municipalities with its LIMIT: the municipalities with
\* no crawl_stats row or with the latest row older than RESCAN_INTERVAL_DAYS,
\* ORDER BY last_crawled NULLS FIRST, municipality_key.  Keys are ordered as
\* their numbers are.
due_municipalities(limit) ==
    LET rank(m) == CASE m = "12060020" -> 1 [] m = "12060024" -> 2 [] m = "12060034" -> 3
        due == {m \in municipality_seed : age[m] = -1 \/ age[m] > RESCAN_INTERVAL_DAYS}
        before(a, b) ==
            \/ age[a] = -1 /\ age[b] /= -1
            \/ age[a] /= -1 /\ age[b] /= -1 /\ age[a] > age[b]
            \/ age[a] = age[b] /\ rank(a) < rank(b)
        position(m) == Cardinality({a \in due : before(a, m)}) + 1
    IN  [k \in 1 .. Min(limit, Cardinality(due)) |-> CHOOSE m \in due : position(m) = k]

\* enqueue_municipality_discovery_jobs for one municipality: the three rpush
\* calls in their order, without those that fail.
discovery_jobs(m, failed) ==
    LET jobs == <<discovery_payload(m, "ris"), discovery_payload(m, "gazette"),
                  discovery_payload(m, "municipal_website")>>
    IN  SelectSeq(jobs, LAMBDA j : j.source \notin failed)

\* One cycle of main: the due municipalities are selected and the jobs of
\* each are pushed; the rpush calls of one municipality may fail.
orchestrator_cycle ==
    /\ cycles < MaxOrchCycles
    /\ cycles' = cycles + 1
    /\ LET candidates == due_municipalities(BATCH_SIZE)
           jobs(k, unlucky, failed) ==
               IF k <= Len(candidates)
               THEN discovery_jobs(candidates[k], IF candidates[k] = unlucky THEN failed ELSE {})
               ELSE <<>>
       IN  \E unlucky \in municipality_seed,
              failed \in SUBSET {"ris", "gazette", "municipal_website"} :
               /\ (failed /= {} => \E k \in DOMAIN candidates : candidates[k] = unlucky)
               /\ (failed = {} => unlucky = "12060020")
               /\ queue' = queue \o jobs(1, unlucky, failed) \o jobs(2, unlucky, failed)
                                 \o jobs(3, unlucky, failed)
    /\ UNCHANGED <<db, wk, uuids, found, crawl_mode, reruns, net, age, summary_log, listing, ris_walk, text_cache, extraction>>

\* A worker takes the discovery job at the head of the queue and, unless its
\* insert fails, writes the crawl_stats row of the job.
discovery_job_processed ==
    /\ queue /= <<>>
    /\ queue' = Tail(queue)
    /\ \/ age' = [age EXCEPT ![Head(queue).municipality_key] = 0]
       \/ age' = age
    /\ UNCHANGED <<db, wk, uuids, cycles, found, crawl_mode, reruns, net, summary_log, listing, ris_walk, text_cache, extraction>>

\* A day passes.
day_passes ==
    /\ \A m \in municipality_seed : age[m] < MaxAge
    /\ age' = [m \in municipality_seed |-> IF age[m] = -1 THEN -1 ELSE age[m] + 1]
    /\ UNCHANGED <<queue, db, wk, uuids, cycles, found, crawl_mode, reruns, net, summary_log, listing, ris_walk, text_cache, extraction>>

NextOrch ==
    \/ orchestrator_cycle
    \/ discovery_job_processed
    \/ day_passes

SpecOrch == Init /\ [][NextOrch]_vars

(***************************************************************************)
(* The text functions on their own: prefilter_score, is_candidate,         *)
(* tag_procedure_type, classify_relevance and is_valid_procedure applied   *)
(* to one listing entry, in the order the pipeline reaches them.           *)
(***************************************************************************)
\* The titles, extracted texts, dates and sources the functions are given.
Titles == {t \in SUBSET Phrases : Cardinality(t) <= MaxTitle}

Texts == SUBSET {"Batteriespeicher", "Stellungnahme", "Frühzeitige Beteiligung"}

InitText ==
    /\ InitState
    /\ ris_walk = NoDict
    /\ text_cache = <<>>
    /\ extraction = NoDict
    /\ listing \in [pc : {"listed"}, title : Titles, text : Texts, url : Urls,
                 discovery_source : {"RIS", "AMTSBLATT"},
                 date : {NULL, "datetime:2024"}]

call_prefilter_score ==
    /\ truthy(listing) /\ listing.pc = "listed"
    /\ listing' = [prefilter_score |-> prefilter_score(listing.title, listing.url)]
               @@ [listing EXCEPT !.pc = "scored"]
    /\ UNCHANGED <<queue, db, wk, uuids, cycles, found, crawl_mode, reruns, net, age,
                   summary_log, ris_walk, text_cache, extraction>>

call_is_candidate ==
    /\ truthy(listing) /\ listing.pc = "scored"
    /\ listing' = [is_candidate |-> is_candidate(listing.text \cup listing.title, listing.title)]
               @@ [listing EXCEPT !.pc = "gated"]
    /\ UNCHANGED <<queue, db, wk, uuids, cycles, found, crawl_mode, reruns, net, age,
                   summary_log, ris_walk, text_cache, extraction>>

\* tag_procedure_type on the combined text classify_relevance hands it.
call_tag_procedure_type ==
    /\ truthy(listing) /\ listing.pc = "gated"
    /\ listing' = [procedure_type |->
                    tag_procedure_type(normalize_text(listing.text \cup listing.title)
                                       \cup normalize_text(listing.title))]
               @@ [listing EXCEPT !.pc = "tagged"]
    /\ UNCHANGED <<queue, db, wk, uuids, cycles, found, crawl_mode, reruns, net, age,
                   summary_log, ris_walk, text_cache, extraction>>

\* classify_relevance as process_extraction_job calls it, on all_text (the
\* title with what was extracted) and the title.
call_classify_relevance ==
    /\ truthy(listing) /\ listing.pc = "tagged"
    /\ listing' = [classifier_result |->
                    classify_relevance(listing.text \cup listing.title, listing.title, listing.date)]
               @@ [listing EXCEPT !.pc = "classified"]
    /\ UNCHANGED <<queue, db, wk, uuids, cycles, found, crawl_mode, reruns, net, age,
                   summary_log, ris_walk, text_cache, extraction>>

call_is_valid_procedure ==
    /\ truthy(listing) /\ listing.pc = "classified"
    /\ listing' = [gate |-> is_valid_procedure(Lowered(listing.title), listing.url,
                                            listing.discovery_source,
                                            listing.classifier_result,
                                            listing.text \cup listing.title)]
               @@ [listing EXCEPT !.pc = "done"]
    /\ UNCHANGED <<queue, db, wk, uuids, cycles, found, crawl_mode, reruns, net, age,
                   summary_log, ris_walk, text_cache, extraction>>

NextText ==
    \/ call_prefilter_score
    \/ call_is_candidate
    \/ call_tag_procedure_type
    \/ call_classify_relevance
    \/ call_is_valid_procedure

SpecText == InitText /\ [][NextText]_vars

(***************************************************************************)
(* list_procedures (apps/crawlers/ris/sessionnet.py) on its way through    *)
(* the committees of a RIS: the sessions of each committee in the order    *)
(* crawl_committee_sessions lists them, with the smart pagination.         *)
(***************************************************************************)
\* What crawl_committee_sessions reads as the date of a session: None when no
\* date pattern matches, else a datetime, here the day before the cut-off or
\* the day of the cut-off.
SessionDates == {NULL, "datetime:2022-12-31", "datetime:2023-01-01"}

\* session_date <= cutoff_date in place of session_date < cutoff_date.
up_to_cutoff(session_date) ==
    session_date \in {"datetime:2022-12-31", "datetime:2023-01-01"}

\* session_date < cutoff_date, with cutoff_date = datetime(2023, 1, 1).
before_cutoff(session_date) == session_date = "datetime:2022-12-31"

max_consecutive_old == 3

\* The lists of at most n elements of S.
SeqUpTo(S, n) == UNION {[1..k -> S] : k \in 0..n}

InitRis ==
    /\ InitState
    /\ listing = NoDict
    /\ text_cache = <<>>
    /\ extraction = NoDict
    /\ \E committees \in SeqUpTo(SeqUpTo(SessionDates, MaxSessions), MaxCommittees) :
          /\ committees /= <<>>
          /\ ris_walk = [pc |-> "sessions", committees |-> committees, committee |-> 1,
                         session |-> 1, consecutive_old_count |-> 0, descended |-> <<>>]

in_sessions ==
    /\ truthy(ris_walk) /\ ris_walk.pc = "sessions"
    /\ ris_walk.session <= Len(ris_walk.committees[ris_walk.committee])

session_date == ris_walk.committees[ris_walk.committee][ris_walk.session]

\* One turn of the inner loop that reaches extract_session_items: the session
\* is descended and its items are appended.
descend_session ==
    /\ in_sessions
    /\ LET count == IF session_date /= NULL /\ before_cutoff(session_date)
                    THEN ris_walk.consecutive_old_count + 1
                    ELSE 0
       IN  /\ count < max_consecutive_old
           /\ ris_walk' = [ris_walk EXCEPT
                               !.consecutive_old_count = count,
                               !.descended = Append(@, <<ris_walk.committee,
                                                         ris_walk.session>>),
                               !.session = @ + 1]
    /\ UNCHANGED <<queue, db, wk, uuids, cycles, found, crawl_mode, reruns, net, age,
                   summary_log, listing, text_cache, extraction>>

\* The turn of the inner loop that breaks, and the reset after the loop.
stop_pagination ==
    /\ in_sessions
    /\ session_date /= NULL /\ before_cutoff(session_date)
    /\ ris_walk.consecutive_old_count + 1 >= max_consecutive_old
    /\ ris_walk' = [ris_walk EXCEPT
                        !.consecutive_old_count = 0,
                        !.pc = IF ris_walk.committee = Len(ris_walk.committees)
                               THEN "returned" ELSE "sessions",
                        !.committee = @ + 1,
                        !.session = 1]
    /\ UNCHANGED <<queue, db, wk, uuids, cycles, found, crawl_mode, reruns, net, age,
                   summary_log, listing, text_cache, extraction>>

\* The inner loop ran out of sessions: the reset after the loop.
next_committee ==
    /\ truthy(ris_walk) /\ ris_walk.pc = "sessions"
    /\ ris_walk.session > Len(ris_walk.committees[ris_walk.committee])
    /\ ris_walk' = [ris_walk EXCEPT
                        !.consecutive_old_count = 0,
                        !.pc = IF ris_walk.committee = Len(ris_walk.committees)
                               THEN "returned" ELSE "sessions",
                        !.committee = @ + 1,
                        !.session = 1]
    /\ UNCHANGED <<queue, db, wk, uuids, cycles, found, crawl_mode, reruns, net, age,
                   summary_log, listing, text_cache, extraction>>

NextRis ==
    \/ descend_session
    \/ stop_pagination
    \/ next_committee

SpecRis == InitRis /\ [][NextRis]_vars

(***************************************************************************)
(* Progressive PDF extraction (apps/parser/pdf_text.py).  A PDF is the     *)
(* list of its pages; a page is blank, carries a trigger term or carries   *)
(* other text.  A text is the list of the page texts joined; <<>> stands   *)
(* for None and for the empty string, which the code treats alike.         *)
(***************************************************************************)
Pages == {"blank", "plain", "trigger"}

Pdfs == UNION {[1..k -> Pages] : k \in 1..MaxPages}

\* pdf.pages[:max_pages], with max_pages = 0 for None.
head_pages(pdf_bytes, max_pages) ==
    IF max_pages = 0 \/ max_pages >= Len(pdf_bytes) THEN pdf_bytes
    ELSE SubSeq(pdf_bytes, 1, max_pages)

\* extract_text without cache: the texts of the pages that have one.
extract_text(pdf_bytes, max_pages) ==
    LET page_text_of(p) == p /= "blank"
    IN  SelectSeq(head_pages(pdf_bytes, max_pages), page_text_of)

\* any(trigger in text.lower() for trigger in triggers)
has_trigger(text) == \E i \in DOMAIN text : text[i] = "trigger"

\* extract_progressive with the cache file as it finds it: the outcomes
\* [text, has_triggers, cache], cache being the file it leaves.  Writing the
\* file may fail, which is logged and nothing more.
extract_progressive(pdf_bytes, initial_pages, cached) ==
    LET initial_text == extract_text(pdf_bytes, initial_pages)
        full_text == extract_text(pdf_bytes, 0)
    IN  IF cached /= <<>>
        THEN {[text |-> cached, has_triggers |-> has_trigger(cached), cache |-> cached]}
        ELSE IF initial_text = <<>>
        THEN {[text |-> <<>>, has_triggers |-> FALSE, cache |-> cached]}
        ELSE IF has_trigger(initial_text)
        THEN {[text |-> full_text, has_triggers |-> TRUE, cache |-> c] :
                 c \in {cached, full_text}}
        ELSE {[text |-> initial_text, has_triggers |-> FALSE, cache |-> c] :
                 c \in {cached, initial_text}}

InitPdf ==
    /\ InitState
    /\ listing = NoDict
    /\ ris_walk = NoDict
    /\ text_cache = <<>>
    /\ \E pdf_bytes \in Pdfs :
          extraction = [pdf_bytes |-> pdf_bytes, mode |-> NULL, text |-> <<>>,
                        has_triggers |-> FALSE]

\* Lines 171-180 of process_extraction_job: extract_progressive on the
\* downloaded document with 3 initial pages in fast mode and 5 in deep mode.
call_extract_progressive ==
    /\ truthy(extraction)
    /\ \E mode \in {"fast", "deep"} :
          LET initial_pages == IF mode = "fast" THEN 3 ELSE 5
          IN  \E o \in extract_progressive(extraction.pdf_bytes, initial_pages,
                                           text_cache) :
                 /\ extraction' = [extraction EXCEPT !.mode = mode, !.text = o.text,
                                                     !.has_triggers = o.has_triggers]
                 /\ text_cache' = o.cache
    /\ UNCHANGED <<queue, db, wk, uuids, cycles, found, crawl_mode, reruns, net, age,
                   summary_log, listing, ris_walk>>

NextPdf == call_extract_progressive

SpecPdf == InitPdf /\ [][NextPdf]_vars

(***************************************************************************)
(* Properties                                                              *)
(***************************************************************************)
\* The extraction jobs that have finished, by return or by exception, and
\* whose candidate row existed when the job read it.
FinishedExtraction ==
    {w \in Workers : /\ wk[w].pc \in {"returned", "raised"}
                     /\ wk[w].kind = "extraction"
                     /\ wk[w].existed}

\* C1: when process_extraction_job has finished, by return or by exception,
\* for a job whose candidate exists, the candidate's status is SKIPPED, DONE
\* or ERROR, whatever the outcome of fetching, classification, gating and
\* database writes.
C1_TerminalAfterExtraction ==
    \A w \in FinishedExtraction :
        crawl_candidates[wk[w].payload.candidate_id].status \in TerminalStatus

C3_OneProjectPerProcedure ==
    \A l1 \in project_procedures, l2 \in project_procedures :
        l1.procedure_id = l2.procedure_id => l1.project_id = l2.project_id

\* Position of a stage in the precedence order, DISCOVERED lowest.
StageRank(stage) ==
    CASE stage = "BAUGENEHMIGUNG" -> 6
      [] stage = "BAUVORBESCHEID" -> 5
      [] stage = "PERMIT_36" -> 4
      [] stage = "BPLAN_SATZUNG" -> 3
      [] stage = "BPLAN_AUSLEGUNG" -> 2
      [] stage = "BPLAN_AUFSTELLUNG" -> 1
      [] OTHER -> 0

\* C4: no step moves the maturity_stage of a project to a stage of lower
\* precedence.
C4_MaturityNeverDecreases ==
    [][\A p \in DOMAIN project_entities :
          /\ p \in DOMAIN project_entities'
          /\ StageRank(project_entities'[p].maturity_stage)
                >= StageRank(project_entities[p].maturity_stage)]_vars

\* The procedure types of the procedures linked to project p.
LinkedTypes(p) ==
    {procedures[l.procedure_id].procedure_type :
        l \in {x \in project_procedures : x.project_id = p}}

\* C5: a step of link_procedure_to_project_entity that links a procedure to a
\* project leaves the project with the maturity_stage that
\* compute_maturity_stage gives for the types of all procedures linked to it.
C5_MaturityIsRecomputed ==
    [][call_link_procedure_to_project_entity =>
          \A l \in project_procedures' \ project_procedures :
              project_entities'[l.project_id].maturity_stage
                 = compute_maturity_stage(LinkedTypes(l.project_id)')]_vars

\* C6: every candidate has one of the five statuses, and a SKIPPED or ERROR
\* candidate has a non-null reason.
C6_ReasonWhenSkippedOrError ==
    \A id \in DOMAIN crawl_candidates :
        /\ crawl_candidates[id].status \in {"NEW", "ENQUEUED", "SKIPPED", "DONE", "ERROR"}
        /\ crawl_candidates[id].status \in {"SKIPPED", "ERROR"}
              => crawl_candidates[id].reason /= NULL

\* Candidates skipped by the prefilter, rejected by the gate and failed in
\* extraction are all present.
C6_Witness ==
    /\ \E id \in DOMAIN crawl_candidates :
          /\ crawl_candidates[id].status = "SKIPPED"
          /\ crawl_candidates[id].reason /= "prefilter_score < threshold"
    /\ \E id \in DOMAIN crawl_candidates :
          /\ crawl_candidates[id].status = "ERROR"
          /\ crawl_candidates[id].reason = "str(e)"

\* The extraction jobs in the queue.
QueuedExtraction == {k \in 1..Len(queue) : "candidate_id" \in DOMAIN queue[k]}

\* C7: no persisted candidate is left NEW; a candidate is ENQUEUED or SKIPPED
\* as should_extract tells; an extraction job in the queue names a persisted
\* candidate whose status is ENQUEUED, and no two jobs name the same candidate.
C7_EnqueuedOrSkipped ==
    /\ \A id \in DOMAIN crawl_candidates :
          LET c == crawl_candidates[id]
          IN  /\ c.status /= "NEW"
              /\ c.status = "ENQUEUED"
                    => should_extract(c.prefilter_score, crawl_mode, c.discovery_source)
              /\ ~should_extract(c.prefilter_score, crawl_mode, c.discovery_source)
                    => c.status = "SKIPPED" /\ c.reason /= NULL
    /\ \A k \in QueuedExtraction :
          /\ queue[k].candidate_id \in DOMAIN crawl_candidates
          /\ crawl_candidates[queue[k].candidate_id].status = "ENQUEUED"
          /\ \A k2 \in QueuedExtraction :
                queue[k2].candidate_id = queue[k].candidate_id => k2 = k

\* C8: a candidate that the container gate rejected in the extraction worker
\* (SKIPPED with the gate's reason) has a source row with a null procedure id
\* for its URL.
C8_RejectedHasAuditSource ==
    \A id \in DOMAIN crawl_candidates :
        (/\ crawl_candidates[id].status = "SKIPPED"
         /\ crawl_candidates[id].reason /= "prefilter_score < threshold")
        => \E s \in sources : /\ s.procedure_id = NullId
                              /\ s.source_url = crawl_candidates[id].url

\* C9: an extraction job whose processing ended with an exception is in the
\* queue again or is being processed again.
C9_FailedJobRedelivered ==
    \A w \in Workers :
        (wk[w].pc = "raised" /\ wk[w].kind = "extraction")
        => \/ \E k \in 1..Len(queue) : queue[k] = wk[w].payload
           \/ \E o \in Workers \ {w} : /\ "payload" \in DOMAIN wk[o]
                                       /\ wk[o].payload = wk[w].payload

\* C10: process_discovery_job never ends with an exception, and a job whose
\* crawler, candidate writes or stats write failed has a crawl-stats row with
\* source_status ERROR_OTHER once it has returned.
C10_DiscoveryNeverRaises ==
    \A w \in Workers :
        ("kind" \in DOMAIN wk[w] /\ wk[w].kind = "discovery")
        => /\ wk[w].pc /= "raised"
           /\ (wk[w].pc = "returned" /\ wk[w].handled)
                 => \E s \in crawl_stats : /\ s.run_id = w
                                           /\ s.job_id = wk[w].job_id
                                           /\ s.source_status = "ERROR_OTHER"

C12_OneStatsRowPerJob ==
    \A w \in Workers :
        wk[w].pc \in {"returned", "raised"} =>
            Cardinality({s \in crawl_stats : s.run_id = w /\ s.job_id = wk[w].job_id}) = 1

C14_NoDuplicateCandidates ==
    \A c1 \in DOMAIN crawl_candidates, c2 \in DOMAIN crawl_candidates :
        (/\ crawl_candidates[c1].url = crawl_candidates[c2].url
         /\ crawl_candidates[c1].title = crawl_candidates[c2].title
         /\ crawl_candidates[c1].discovery_source = crawl_candidates[c2].discovery_source
         /\ crawl_candidates[c1].municipality_key = crawl_candidates[c2].municipality_key)
        => c1 = c2

\* The processes with a request to netloc d on the wire.
InFlightTo(d) == {p \in Workers : call[p].pc \in InFlight /\ netloc(call[p].url) = d}

\* C15: at most _per_domain_concurrency requests are in flight to one netloc
\* and at most _global_concurrency overall, and a process with a request in
\* flight holds a permit of both semaphores.
C15_RequestsAreGated ==
    /\ \A d \in Netlocs : Cardinality(InFlightTo(d)) <= _per_domain_concurrency
    /\ Cardinality(UNION {InFlightTo(d) : d \in Netlocs}) <= _global_concurrency
    /\ \A p \in Workers :
           call[p].pc \in InFlight =>
               /\ semaphores[p].global > 0
               /\ semaphores[p].domain[netloc(call[p].url)] > 0

\* C16: a step that puts a request on the wire of a netloc comes at least the
\* minimum delay of the netloc after the previous request to it.
C16_MinSpacing ==
    [][\A p \in Workers :
           (call'[p].pc \in InFlight /\ call'[p].pc /= call[p].pc) =>
               LET d == netloc(call'[p].url)
               IN  last_sent[d] = -1 \/ clock - last_sent[d] >= min_delay(d)]_vars

\* C17: a download_cached call for a URL that was cached with an ETag when
\* the call began has sent a request with If-None-Match set to that ETag, and
\* after a 304 it has returned the cached body.
C17_ConditionalRequest ==
    \A p \in Workers :
        LET c == call[p] IN
        (/\ c.fn = "download_cached"
         /\ c.pc = "done"
         /\ c.robots
         /\ truthy(c.cached)
         /\ c.cached.etag /= NULL)
        => /\ c.requests >= 1
           /\ c.if_none_match = c.cached.etag
           /\ c.outcome = "304" => c.result = Content(c.cached.content, c.cached.etag)

\* C18: a call sends a request with verify=False only after an SSL error for
\* a host of the allow-list, and at most one; a call that ended in an SSL
\* error for a host outside the allow-list has raised it.
C18_UnverifiedOnlyAllowListed ==
    \A p \in Workers :
        LET c == call[p] IN
        /\ c.insecure > 0 => (c.ssl_seen /\ should_disable_ssl_verify(c.url))
        /\ c.insecure <= 1
        /\ (c.pc = "done" /\ c.outcome = "ssl" /\ ~should_disable_ssl_verify(c.url))
               => c.result = SSLError

\* The HTTP request of ris_safe_get is made only after an SSL error with the
\* switch on, and once.
RisHttpOnlyAfterSslError ==
    \A p \in Workers :
        call[p].fn = "ris_safe_get" =>
            /\ call[p].http_requests > 0 => (call[p].ssl_seen /\ call[p].switch)
            /\ call[p].http_requests <= 1

\* The result of a finished call is None, the HTTPS response with status
\* 200, or the HTTP response with status 200 and a RIS marker in its body.
RisResultOrNone(c) ==
    \/ c.result = None
    \/ c.result.kind = "response" /\ c.result.via = "https" /\ c.result.status = "200"
    \/ /\ c.result.kind = "response" /\ c.result.via = "http"
       /\ c.result.status = "200" /\ is_ris_page(c.result.body)

\* http_fallback_used_total changes in exactly the steps that return the HTTP
\* response.
RisCounted ==
    \A p \in Workers :
        (ssl_metrics'[p].http_fallback_used_total /= ssl_metrics[p].http_fallback_used_total)
        <=> (/\ call[p].pc = "requesting_http"
             /\ call'[p].pc = "done"
             /\ call'[p].result.via = "http"
             /\ ssl_metrics'[p].http_fallback_used_total
                    = ssl_metrics[p].http_fallback_used_total + 1)

\* C19 as stated: ris_safe_get goes to plain HTTP only after an SSL error with
\* the switch on, once; it counts exactly the HTTP responses it returns; and
\* whatever the URL, its result is an accepted response or None.
C19_RisFallbackOrNone ==
    /\ [](RisHttpOnlyAfterSslError
          /\ \A p \in Workers :
                 (call[p].fn = "ris_safe_get" /\ call[p].pc = "done")
                     => RisResultOrNone(call[p]))
    /\ [][RisCounted]_vars

\* C19 for HTTPS URLs: ris_safe_get goes to plain HTTP only after an SSL error
\* with the switch on, once; it counts exactly the HTTP responses it returns;
\* and for an HTTPS URL its result is an accepted response or None.
C19_RisFallbackOrNoneHttps ==
    /\ [](RisHttpOnlyAfterSslError
          /\ \A p \in Workers :
                 (/\ call[p].fn = "ris_safe_get"
                  /\ call[p].pc = "done"
                  /\ lower(scheme(call[p].url)) = "https")
                     => RisResultOrNone(call[p]))
    /\ [][RisCounted]_vars

\* A call of ris_safe_get for an HTTPS URL has returned the HTTP response
\* after an SSL error, and the process has counted it.
C19_Witness ==
    \E p \in Workers :
        /\ call[p].fn = "ris_safe_get"
        /\ call[p].pc = "done"
        /\ call[p].ssl_seen
        /\ call[p].result.via = "http"
        /\ ssl_metrics[p].http_fallback_used_total = 1

\* C20: download_cached sends at most max_retries requests, starts another
\* attempt only after a timeout or a connection error, has returned once a
\* request was answered 200 or 404, and returns None after max_retries
\* failed attempts.
C20_BoundedRetries ==
    \A p \in Workers :
        LET c == call[p] IN
        c.fn = "download_cached" =>
            /\ c.requests <= crawl_retries
            /\ (c.pc = "send" /\ c.attempt > 0) => c.outcome \in Transient
            /\ c.outcome \in {"200", "404"} => c.pc = "done"
            /\ (c.pc = "done" /\ c.requests = crawl_retries /\ c.outcome \notin Statuses)
                   => c.result = None

\* The jobs a step appends to the queue.
Enqueued == SubSeq(queue', Len(queue) + 1, Len(queue'))

C22_OneSummaryAfterAllSources ==
    \A i \in 1 .. Len(summary_log) :
        LET line == summary_log[i]
        IN  /\ \A j \in 1 .. Len(summary_log) :
                   j /= i => summary_log[j].municipality_key /= line.municipality_key
            /\ \A source_type \in {"RIS", "GAZETTE", "MUNICIPAL_WEBSITE"} :
                   \E s \in crawl_stats :
                       /\ s.kind = "discovery"
                       /\ s.municipality_key = line.municipality_key
                       /\ s.source_type = source_type
                       /\ s.source_status = line[source_type]

\* The signature of a stored procedure.
SignatureOf(proc) == compute_project_signature(proc, classified(proc.title_raw))

\* SQL LIKE '%token%' on a stored site location.
SiteContains(site, token) ==
    /\ site /= NULL
    /\ token /= NULL
    /\ \/ site = token
       \/ token = "flur=3" /\ site = "gemarkung=seelow;flur=3;flurstueck=12"

\* The title signatures of the procedures project p has its developer from.
ProjectTitles(p) ==
    {Lowered(procedures[q].title_raw) :
        q \in {q \in DOMAIN procedures :
                 /\ procedures[q].municipality_key = project_entities[p].municipality_key
                 /\ dict_get(procedures[q], "developer_company", NULL)
                       = project_entities[p].developer_company_best}}

\* The projects of the procedure's municipality that match at each level.
MatchesAt(level, proc, with_title) ==
    LET sig == SignatureOf(proc)
        here == {p \in DOMAIN project_entities :
                    project_entities[p].municipality_key = proc.municipality_key}
    IN  CASE level = "PARCEL_MATCH" ->
                 {p \in here : SiteContains(project_entities[p].site_location_best,
                                            sig.parcel_token)}
          [] level = "PLAN_TOKEN_MATCH" ->
                 {p \in here : /\ sig.plan_token /= NULL
                               /\ project_entities[p].canonical_project_name
                                     = {"B-Plan " \o sig.plan_token}}
          [] level = "DEV+TITLE_MATCH" ->
                 {p \in here :
                     /\ sig.developer_token /= NULL
                     /\ project_entities[p].developer_company_best /= NULL
                     /\ normalize_company_name(project_entities[p].developer_company_best)
                           = sig.developer_token
                     /\ with_title =>
                            \E t \in ProjectTitles(p) : t \cap sig.title_signature /= {}}

\* The link a call leaves for a procedure follows the precedence of the levels.
FirstMatchWins(with_title) ==
    \A l \in project_procedures' \ project_procedures :
        LET proc == procedures[l.procedure_id]
            parcel == MatchesAt("PARCEL_MATCH", proc, with_title)
            plan == MatchesAt("PLAN_TOKEN_MATCH", proc, with_title)
            dev == MatchesAt("DEV+TITLE_MATCH", proc, with_title)
            is(p, confidence, reason) ==
                /\ l.project_id \in p
                /\ l.link_confidence = confidence
                /\ l.link_reason = reason
        IN  IF parcel /= {} THEN is(parcel, 95, "PARCEL_MATCH")
            ELSE IF plan /= {} THEN is(plan, 90, "PLAN_TOKEN_MATCH")
            ELSE IF dev /= {} THEN is(dev, 80, "DEV+TITLE_MATCH")
            ELSE l.link_reason \notin {"PARCEL_MATCH", "PLAN_TOKEN_MATCH",
                                       "DEV+TITLE_MATCH"}

\* C23: a link that find_matching_project decided is to a project of the
\* procedure's municipality, by the first level that applies: parcel token in
\* the site location (PARCEL_MATCH, 0.95), else plan token in the canonical
\* name (PLAN_TOKEN_MATCH, 0.90), else equal developer and overlapping title
\* (DEV+TITLE_MATCH, 0.80); no level applies, no match.
C23_FirstMatchWins ==
    [][call_link_procedure_to_project_entity => FirstMatchWins(TRUE)]_vars

\* C24: a call of link_procedure_to_project_entity that creates a project
\* creates exactly one and leaves a link from the procedure to that project,
\* with reason NEW_PROJECT and confidence 1.00, or, for a procedure of type
\* PERMIT_36_EINVERNEHMEN, with reason PERMIT_36_NEW, confidence 0.85 and the
\* project at maturity PERMIT_36.
C24_NewProjectIsLinked ==
    [][(call_link_procedure_to_project_entity
        /\ DOMAIN project_entities' /= DOMAIN project_entities) =>
          \E p \in DOMAIN project_entities' \ DOMAIN project_entities :
              /\ DOMAIN project_entities' \ DOMAIN project_entities = {p}
              /\ \E l \in project_procedures' :
                    /\ l.project_id = p
                    /\ IF procedures[l.procedure_id].procedure_type
                             = "PERMIT_36_EINVERNEHMEN"
                       THEN /\ l.link_reason = "PERMIT_36_NEW"
                            /\ l.link_confidence = 85
                            /\ project_entities'[p].maturity_stage = "PERMIT_36"
                       ELSE /\ l.link_reason = "NEW_PROJECT"
                            /\ l.link_confidence = 100]_vars

\* Position of a legal basis in the precedence order, null lowest.
BasisRank(legal_basis) ==
    CASE legal_basis = "§35" -> 4
      [] legal_basis = "§34" -> 3
      [] legal_basis = "§36" -> 2
      [] legal_basis = NULL -> 0
      [] OTHER -> 1

\* C25: no upsert into an existing project moves its legal_basis_best to a
\* basis of lower precedence (§35 > §34 > §36 > any other > null).
C25_LegalBasisNeverDowngraded ==
    [][call_upsert_project_entity =>
          \A p \in DOMAIN project_entities :
              BasisRank(project_entities'[p].legal_basis_best)
                 >= BasisRank(project_entities[p].legal_basis_best)]_vars

\* The listing entry's title with its extracted text, as the classifier and
\* the candidate gate are handed them.
AllText == listing.text \cup listing.title

HasNegativeTerm ==
    LET negatives == NEGATIVE_STORAGE_TERMS \cup NEGATIVE_UNRELATED_TERMS
    IN  AnyIn(negatives, normalize_text(AllText)) \/ AnyIn(negatives, Lowered(AllText))

\* The explicit BESS terms: the strong terms of the classifier, without the
\* medium terms "speicheranlage", "speicherpark" and "speicherkraftwerk".
HasExplicitBessTerm ==
    AnyIn({"batteriespeicher", "batterie-speicher", "energiespeicher", "stromspeicher",
           "grossspeicher", "großspeicher", "bess"}, normalize_text(AllText))

\* C26: an input with a negative-storage or negative-unrelated term and no
\* explicit BESS term is classified is_relevant = FALSE with confidence_score
\* 0, whatever procedure, grid or date evidence it carries, and is_candidate
\* rejects the same input.
C26_NegativeWithoutBessRejected ==
    (truthy(listing) /\ listing.pc \in {"classified", "done"}
     /\ HasNegativeTerm /\ ~HasExplicitBessTerm)
    => /\ listing.classifier_result.is_relevant = FALSE
       /\ listing.classifier_result.confidence_score = 0
       /\ listing.is_candidate = FALSE

\* The first half of C26 alone, on classify_relevance.
C26x_ClassifierRejects ==
    (truthy(listing) /\ listing.pc \in {"classified", "done"}
     /\ HasNegativeTerm /\ ~HasExplicitBessTerm)
    => /\ listing.classifier_result.is_relevant = FALSE
       /\ listing.classifier_result.confidence_score = 0

\* The text tag_procedure_type is handed: the normalised text and title.
TagText == normalize_text(AllText) \cup normalize_text(listing.title)

TypeOrder ==
    <<"PERMIT_BAUVORBESCHEID", "PERMIT_BAUGENEHMIGUNG", "PERMIT_36_EINVERNEHMEN",
      "PERMIT_OTHER", "BPLAN_AUFSTELLUNG", "BPLAN_FRUEHZEITIG_3_1", "BPLAN_AUSLEGUNG_3_2",
      "BPLAN_SATZUNG", "BPLAN_OTHER">>

\* The marker of each type, taken on its own.
Marked(type, text) ==
    CASE type = "PERMIT_BAUVORBESCHEID" -> AnyIn({"bauvorbescheid", "vorbescheid"}, text)
      [] type = "PERMIT_BAUGENEHMIGUNG" -> In("baugenehmigung", text)
      [] type = "PERMIT_36_EINVERNEHMEN" ->
             In("§ 36 baugb", text)
             \/ (In("gemeindliches einvernehmen", text) /\ In("§ 36", text))
      [] type = "PERMIT_OTHER" ->
             \/ AnyIn({"bauantrag", "bauvoranfrage", "bauvorantrag",
                       "antrag auf errichtung"}, text)
             \/ (In("antrag auf", text) /\ AnyIn(PERMIT_TERMS_STRONG, text))
             \/ (In("kenntnisnahme", text) /\ In("vorhaben", text))
      [] type = "BPLAN_AUFSTELLUNG" ->
             AnyIn({"aufstellungsbeschluss", "beschluss zur aufstellung",
                    "§ 2 abs. 1 baugb"}, text)
      [] type = "BPLAN_FRUEHZEITIG_3_1" ->
             AnyIn({"§ 3 abs. 1 baugb", "frühzeitige beteiligung",
                    "fruehzeitige beteiligung"}, text)
      [] type = "BPLAN_AUSLEGUNG_3_2" ->
             AnyIn({"§ 3 abs. 2 baugb", "öffentliche auslegung", "oeffentliche auslegung"},
                   text)
      [] type = "BPLAN_SATZUNG" ->
             AnyIn({"satzungsbeschluss", "§ 10 baugb", "inkrafttreten"}, text)
      [] type = "BPLAN_OTHER" -> AnyIn(PLANNING_TERMS_STRONG, text)

FirstMarked(text) ==
    LET hits == {i \in DOMAIN TypeOrder : Marked(TypeOrder[i], text)}
    IN  IF hits = {} THEN "UNKNOWN"
        ELSE TypeOrder[CHOOSE i \in hits : \A j \in hits : i <= j]

HasPermitMarker == \E i \in 1..4 : Marked(TypeOrder[i], TagText)

HasPlanStageMarker == \E i \in 5..8 : Marked(TypeOrder[i], TagText)

Tagged == truthy(listing) /\ listing.pc \in {"tagged", "classified", "done"}

\* C27: tag_procedure_type returns the first type, in the order of TypeOrder,
\* whose marker the text carries, and UNKNOWN when it carries none; a text
\* with a permit marker and a B-plan stage marker gets a permit type.
C27_FirstMatchingType ==
    Tagged
    => /\ listing.procedure_type = FirstMarked(TagText)
       /\ (HasPermitMarker /\ HasPlanStageMarker)
          => listing.procedure_type \in {TypeOrder[i] : i \in 1..4}

\* A text with the Baugenehmigung marker and a B-plan stage marker, tagged.
C27_Witness ==
    /\ Tagged
    /\ Marked("PERMIT_BAUGENEHMIGUNG", TagText)
    /\ ~Marked("PERMIT_BAUVORBESCHEID", TagText)
    /\ HasPlanStageMarker
    /\ listing.procedure_type = "PERMIT_BAUGENEHMIGUNG"

Gated == truthy(listing) /\ listing.pc = "done"

\* The title or URL is container-like: gazette-issue phrasing and no
\* procedure keyword.
ContainerLike ==
    is_container(Lowered(listing.title), listing.url, listing.discovery_source)

\* A procedure signal of the title or the extracted text: a procedure term
\* the gate looks for, or a procedure type the classifier found in them.
CarriesProcedureSignal ==
    \/ AnyIn({"bebauungsplan", "b-plan", "bauleitplanung", "aufstellungsbeschluss",
              "satzungsbeschluss", "öffentliche auslegung", "auslegung", "bauvorbescheid",
              "baugenehmigung", "einvernehmen", "§ 35", "§ 34", "§ 36", "bauantrag",
              "bauvoranfrage", "stellungnahme"}, Lowered(AllText))
    \/ listing.classifier_result.procedure_type /= NULL

Scored == truthy(listing) /\ listing.pc /= "listed"

StrongBessTitle ==
    AnyIn({"batteriespeicher", "batterie-speicher", "energiespeicher", "stromspeicher",
           "grossspeicher", "großspeicher"}, Lowered(listing.title))

\* A gazette-container-like title with no procedure signal.
ContainerTitleWithoutSignal ==
    /\ AnyIn({"amtsblatt", "sonderamtsblatt", "bekanntmachungsblatt", "ausgabe", "nummer",
              "nr."}, Lowered(listing.title))
    /\ ~AnyIn({"aufstellungsbeschluss", "öffentliche auslegung", "oeffentliche auslegung",
               "satzungsbeschluss", "bauvorbescheid", "baugenehmigung", "§ 36", "§36",
               "einvernehmen"}, Lowered(listing.title))

\* C29 as stated: the score lies in [0, 1] (0..100 hundredths), a title with
\* a strong BESS term scores at least 0.6, and a container-like title with no
\* procedure signal scores 0.
C29_ScoreAsStated ==
    Scored
    => /\ listing.prefilter_score \in 0..100
       /\ StrongBessTitle => listing.prefilter_score >= 60
       /\ ContainerTitleWithoutSignal => listing.prefilter_score = 0

\* C29, amended: the score lies in [0, 1]; a title with a strong BESS term
\* that is not a container-like title without procedure signal scores at
\* least 0.6; a container-like title with no procedure signal scores 0 when
\* it has no strong BESS term and at most 0.5 when it has one.
C29_ScoreBounds ==
    Scored
    => /\ listing.prefilter_score \in 0..100
       /\ (StrongBessTitle /\ ~ContainerTitleWithoutSignal)
          => listing.prefilter_score >= 60
       /\ (ContainerTitleWithoutSignal /\ ~StrongBessTitle) => listing.prefilter_score = 0
       /\ (ContainerTitleWithoutSignal /\ StrongBessTitle) => listing.prefilter_score <= 50

\* A gazette issue naming a battery storage in its title, from a RIS URL:
\* 0.6 + 0.2 - 0.7.
C29_Witness ==
    /\ Scored /\ StrongBessTitle /\ ContainerTitleWithoutSignal
    /\ listing.prefilter_score = 10

\* A session dated before the cut-off 2023-01-01.
DatedOld(date) == date = "datetime:2022-12-31"

\* The number of consecutive sessions dated before the cut-off that end at
\* session i of a committee.
RECURSIVE OldRun(_, _)
OldRun(sessions, i) ==
    IF i = 0 \/ ~DatedOld(sessions[i]) THEN 0 ELSE OldRun(sessions, i - 1) + 1

\* The first session that ends a run of three, or the length plus one.
StopIndex(sessions) ==
    LET stops == {i \in DOMAIN sessions : OldRun(sessions, i) >= 3}
    IN  IF stops = {} THEN Len(sessions) + 1
        ELSE CHOOSE i \in stops : \A j \in stops : i <= j

DescendedSet == {ris_walk.descended[i] : i \in DOMAIN ris_walk.descended}

\* C30: within a committee the counter is the number of consecutive sessions
\* dated before the cut-off that end at the last session traversed (0 after a
\* session on or after the cut-off or an undated one, 0 at the start of every
\* committee); the sessions descended are, in list order, those before the
\* first session that raises the counter to 3.
C30_SmartPagination ==
    truthy(ris_walk)
    => LET committees == ris_walk.committees
           c == ris_walk.committee
           s == ris_walk.session
           finished == IF ris_walk.pc = "returned" THEN DOMAIN committees ELSE 1..(c - 1)
       IN  /\ DescendedSet =
                  {<<k, i>> \in finished \X (1..MaxSessions) :
                       i < StopIndex(committees[k]) /\ i <= Len(committees[k])}
                  \cup (IF ris_walk.pc = "sessions" THEN {<<c, i>> : i \in 1..(s - 1)}
                        ELSE {})
           /\ \A i, j \in DOMAIN ris_walk.descended :
                  i < j => \/ ris_walk.descended[i][1] < ris_walk.descended[j][1]
                           \/ /\ ris_walk.descended[i][1] = ris_walk.descended[j][1]
                              /\ ris_walk.descended[i][2] < ris_walk.descended[j][2]
           /\ ris_walk.pc = "sessions"
              => /\ ris_walk.consecutive_old_count = OldRun(committees[c], s - 1)
                 /\ ris_walk.consecutive_old_count < 3
                 /\ s <= StopIndex(committees[c])
                 /\ s = 1 => ris_walk.consecutive_old_count = 0

\* Three old sessions end the first committee before its recent fourth
\* session; the second committee starts at 0 again and is descended whole.
C30_Witness ==
    /\ truthy(ris_walk) /\ ris_walk.pc = "returned"
    /\ ris_walk.committees =
           << <<"datetime:2022-12-31", "datetime:2022-12-31", "datetime:2022-12-31",
                "datetime:2023-01-01">>,
              <<"datetime:2022-12-31", "datetime:2022-12-31", NULL,
                "datetime:2022-12-31">> >>
    /\ ris_walk.descended = << <<1, 1>>, <<1, 2>>, <<2, 1>>, <<2, 2>>, <<2, 3>>, <<2, 4>> >>

\* Worker w is about to persist a RIS candidate that is no container and
\* whose classifier result carries no procedure type: with is_relevant false
\* and no is_candidate key, the gate let it pass on privileged-project
\* language alone.
PassedOnPrivilegedLanguage(w) ==
    /\ wk[w].pc = "save_procedure"
    /\ wk[w].discovery_source = "RIS"
    /\ wk[w].classifier_result.procedure_type = NULL
    /\ ~is_container(wk[w].proc_norm.title_norm, wk[w].url, wk[w].discovery_source)

\* C31: a RIS candidate that passes the container gate only through
\* privileged-project language, the classifier having assigned no procedure
\* type, is persisted with procedure_type = UNKNOWN and review_recommended.
C31_PrivilegedStoredUnknown ==
    [][\A w \in Workers :
          (PassedOnPrivilegedLanguage(w) /\ procedures' /= procedures)
          => LET row == procedures'[wk[w].proc_norm.procedure_id]
             IN  row.procedure_type = "UNKNOWN" /\ row.review_recommended = TRUE]_vars

\* An explicit BESS signal, or "Speicher" together with a grid signal, in the
\* title or the text.
HasBessOrGridSignal ==
    LET combined_text == Lowered(AllText)
    IN  \/ AnyIn({"batteriespeicher", "energiespeicher", "stromspeicher", "speicheranlage",
                  "speicherpark", "containeranlage", "anlage zur energiespeicherung"},
                 combined_text)
        \/ /\ AnyIn({"umspannwerk", "netzanschluss", "trafostation", "mittelspannung",
                     "hochspannung", "110 kv", "220 kv"}, combined_text)
           /\ In("speicher", combined_text)

\* C32: is_valid_procedure accepts a non-container item of any discovery
\* source whose title or text carries an explicit BESS signal, or "Speicher"
\* with a grid signal, also when the classify_relevance result handed to it
\* has no procedure type.  The worker always hands the classifier a date.
C32_BessSignalPasses ==
    (Gated /\ listing.date /= NULL /\ ~ContainerLike /\ HasBessOrGridSignal)
    => listing.gate = <<TRUE, NULL>>

HasProcedureTerm ==
    AnyIn(PLANNING_TERMS_STRONG \cup PLANNING_STEP_TERMS \cup PERMIT_TERMS_STRONG,
          normalize_text(AllText))

\* C33: classify_relevance marks as relevant every input with an explicit
\* BESS term and a procedure term, also when a negative term is present.
C33_ExplicitBessOverridesNegative ==
    (truthy(listing) /\ listing.pc \in {"classified", "done"}
     /\ HasExplicitBessTerm /\ HasProcedureTerm)
    => listing.classifier_result.is_relevant = TRUE

\* The same without the inputs that carry a negative term.
C33x_RuleOneWithoutNegative ==
    (truthy(listing) /\ listing.pc \in {"classified", "done"}
     /\ HasExplicitBessTerm /\ HasProcedureTerm /\ ~HasNegativeTerm)
    => listing.classifier_result.is_relevant = TRUE

\* C34: a link with reason DEV+TITLE_MATCH is to a project whose normalised
\* developer equals the procedure's developer token and whose title
\* signature overlaps the procedure's; an equal developer alone is no match.
C34_DevMatchNeedsTitleOverlap ==
    [][\A l \in project_procedures' \ project_procedures :
          l.link_reason = "DEV+TITLE_MATCH"
          => l.project_id \in MatchesAt("DEV+TITLE_MATCH", procedures[l.procedure_id],
                                        TRUE)]_vars

\* The developer half of C34 alone.
C34x_DevMatchHasEqualDeveloper ==
    [][\A l \in project_procedures' \ project_procedures :
          l.link_reason = "DEV+TITLE_MATCH"
          => l.project_id \in MatchesAt("DEV+TITLE_MATCH", procedures[l.procedure_id],
                                        FALSE)]_vars

\* What extract_progressive returns for the PDF without a cache.
UncachedText(initial_pages) ==
    LET first == extract_text(extraction.pdf_bytes, initial_pages)
    IN  IF has_trigger(first) THEN extract_text(extraction.pdf_bytes, 0) ELSE first

\* C35: extract_progressive returns the full text when a trigger term occurs
\* in the first N pages (3 in fast mode, 5 in deep mode) and the text of the
\* first N pages otherwise, N being that of the current call, after any
\* earlier extractions of the same document in either mode.
C35_CacheKeepsResult ==
    (truthy(extraction) /\ extraction.mode /= NULL)
    => extraction.text = UncachedText(IF extraction.mode = "fast" THEN 3 ELSE 5)

\* The last clause of C35: a deep-mode call never returns less than it would
\* without the cache.
C35x_DeepNeverLess ==
    (truthy(extraction) /\ extraction.mode = "deep")
    => Len(extraction.text) >= Len(UncachedText(5))

\* C36: whenever a worker has dequeued an extraction job, the candidate row
\* its candidate_id names is committed, so that get_candidate finds it and no
\* extraction job is dropped as 'candidate not found'.
C36_CandidateCommittedBeforeDequeue ==
    \A w \in Workers :
       /\ wk[w].pc = "get_candidate"
          => wk[w].payload.candidate_id \in DOMAIN crawl_candidates
       /\ (wk[w].pc = "returned" /\ "existed" \in DOMAIN wk[w]) => wk[w].existed

Terminal == {"DONE", "SKIPPED", "ERROR"}

HasStatus(id, statuses) ==
    id \in DOMAIN crawl_candidates /\ crawl_candidates[id].status \in statuses

\* C37: under fair scheduling of the running workers every candidate marked
\* ENQUEUED eventually reaches DONE, SKIPPED or ERROR.
C37_EnqueuedEventuallyTerminal ==
    \A k \in 1..MaxIds : HasStatus(<<k>>, {"ENQUEUED"}) ~> HasStatus(<<k>>, Terminal)


\* The discovery jobs of municipality m waiting in the queue.
Outstanding(m) ==
    Cardinality({k \in DOMAIN queue : /\ "candidate_id" \notin DOMAIN queue[k]
                                      /\ queue[k].municipality_key = m})

HoldsPermits(p) == call[p].pc \in {"rate_limit", "send"} \cup InFlight

\* C39: every acquire of download_cached and head_cached is matched by one
\* release on every path: a process holds one global permit and one permit
\* of the call's origin exactly between acquire and the return of the call,
\* and none of another origin; with no call in progress all permits are
\* available; a call that reaches acquire finds a permit.
C39_PermitsBalanced ==
    \A p \in Workers :
       /\ semaphores[p].global = (IF HoldsPermits(p) THEN 1 ELSE 0)
       /\ \A d \in Netlocs :
             semaphores[p].domain[d]
                = (IF HoldsPermits(p) /\ netloc(call[p].url) = d THEN 1 ELSE 0)
       /\ call[p].pc = "acquire"
          => /\ semaphores[p].global < _global_concurrency
             /\ semaphores[p].domain[netloc(call[p].url)] < _per_domain_concurrency

\* A head_cached call that ended on a timeout or a connection error, and a
\* download_cached call of the other process that ran out of retries, all
\* permits being back.
C39_Witness ==
    /\ \E p \in Workers : /\ call[p].fn = "head_cached" /\ call[p].pc = "done"
                          /\ call[p].outcome \in Transient
    /\ \E p \in Workers : /\ call[p].fn = "download_cached" /\ call[p].pc = "done"
                          /\ call[p].outcome \in Transient
                          /\ call[p].requests = crawl_retries
    /\ \A p \in Workers : semaphores[p].global = 0

====
